---- MODULE Spec2Model ----
(***************************************************************************)
(* A model of seqbank: the sequence codec (transform.py), the filter       *)
(* parser (utils.py), format detection and the temporary directory         *)
(* (io.py), the SeqBank store and its ingestion operations (seqbank.py)    *)
(* and the Dfam download (dfam.py).                                        *)
(*                                                                         *)
(* Representation.  A Python str is the sequence of its code points, a     *)
(* Python bytes object the sequence of its byte values (0..255).  Str      *)
(* turns the readable spelling <<"A","C">> into code points.  The Rdict    *)
(* engine is a function from the keys that are present to their values.    *)
(***************************************************************************)
EXTENDS Integers, Sequences, FiniteSets, TLC

VARIABLES
    db,      \* SeqBank.file: the Rdict, [present keys -> values], both bytes
    clock,   \* datetime.now(), in seconds
    fs,      \* the directory tmp_dir: whether it exists and the mkdtemp
             \* directories inside it
    call,    \* the operation the main thread is in or has just completed:
             \* its name, arguments, state and return value
    tasks,   \* the add_file / add_url / download_dfam invocations of the call
    log,     \* the download_file calls made during the call
    codec,   \* the codec functions applied to one input
    handle,  \* the SeqBank object: whether there is one, its write flag,
             \* whether its path exists on disk, and its engine handle
             \* (_db): not opened yet, open or closed
    other    \* a second SeqBank, the target of copy: its Rdict and its
             \* write flag

vars == <<db, clock, fs, call, tasks, log, codec, handle, other>>

(***************************************************************************)
(* Bounds                                                                  *)
(***************************************************************************)
MaxSeqLen == 3       \* longest sequence given to the codec functions
MaxClock == 1        \* seconds the clock may advance
MaxBatch == 2        \* largest max given to add_urls and add_files

(***************************************************************************)
(* Characters                                                              *)
(***************************************************************************)
Ord ==
    "A" :> 65 @@ "C" :> 67 @@ "G" :> 71 @@ "T" :> 84 @@ "N" :> 78 @@
    "a" :> 97 @@ "c" :> 99 @@ "g" :> 103 @@ "t" :> 116 @@ "n" :> 110 @@
    "J" :> 74 @@ "-" :> 45 @@ "e'" :> 233 @@
    "/" :> 47 @@ "." :> 46 @@ ":" :> 58 @@ "_" :> 95 @@ " " :> 32 @@
    "nl" :> 10 @@
    "0" :> 48 @@ "1" :> 49 @@ "2" :> 50 @@ "5" :> 53 @@
    "B" :> 66 @@ "D" :> 68 @@ "F" :> 70 @@ "S" :> 83 @@
    "b" :> 98 @@ "d" :> 100 @@ "e" :> 101 @@ "f" :> 102 @@ "h" :> 104 @@
    "i" :> 105 @@ "k" :> 107 @@ "l" :> 108 @@ "m" :> 109 @@ "o" :> 111 @@
    "p" :> 112 @@ "q" :> 113 @@ "r" :> 114 @@ "s" :> 115 @@ "u" :> 117 @@
    "v" :> 118 @@ "w" :> 119 @@ "x" :> 120 @@ "y" :> 121 @@ "z" :> 122

\* The str spelled by a tuple of characters.
Str(t) == [i \in DOMAIN t |-> Ord[t[i]]]

\* str.encode("ascii") / bytes(s, "ascii"): the code points as bytes; a code
\* point above 127 raises UnicodeEncodeError.
IsAscii(s) == \A i \in DOMAIN s : s[i] < 128

(***************************************************************************)
(* transform.py                                                            *)
(***************************************************************************)
vocab_to_int == "A" :> 1 @@ "C" :> 2 @@ "G" :> 3 @@ "T" :> 4 @@ "N" :> 0

\* char.lower() on the vocabulary
Lower == "A" :> "a" @@ "C" :> "c" @@ "G" :> "g" @@ "T" :> "t" @@ "N" :> "n"

\* bytes(range(256)).translate(None, b'ACGTNacgtn'): every byte but those
DELETE ==
    (0..255) \ ({Ord[ch] : ch \in DOMAIN vocab_to_int}
                \cup {Ord[Lower[ch]] : ch \in DOMAIN vocab_to_int})

\* a translation table without the lower-case letters
TABLE_upper_only ==
    [b \in 0..255 |->
        IF \E ch \in DOMAIN vocab_to_int : b = Ord[ch]
        THEN vocab_to_int[CHOOSE ch \in DOMAIN vocab_to_int : b = Ord[ch]]
        ELSE 0]

\* TABLE after the loop of lines 10-12
TABLE ==
    [b \in 0..255 |->
        IF \E ch \in DOMAIN vocab_to_int : b \in {Ord[ch], Ord[Lower[ch]]}
        THEN vocab_to_int[CHOOSE ch \in DOMAIN vocab_to_int :
                              b \in {Ord[ch], Ord[Lower[ch]]}]
        ELSE 0]

REVERSE_TABLE ==
    [b \in 0..255 |->
        IF \E ch \in DOMAIN vocab_to_int : vocab_to_int[ch] = b
        THEN Ord[CHOOSE ch \in DOMAIN vocab_to_int : vocab_to_int[ch] = b]
        ELSE 0]

\* bytes.translate(table, delete): drop the bytes in delete, map the rest.
RECURSIVE Translate(_, _, _)
Translate(seq, table, delete) ==
    IF seq = <<>> THEN <<>>
    ELSE IF Head(seq) \in delete
         THEN Translate(Tail(seq), table, delete)
         ELSE <<table[Head(seq)]>> \o Translate(Tail(seq), table, delete)

Ok(v) == [ok |-> TRUE, val |-> v]
Raise(e) == [ok |-> FALSE, err |-> e]

\* seq_to_bytes(seq: str, delete)
seq_to_bytes(seq, delete) ==
    IF ~IsAscii(seq) THEN Raise("UnicodeEncodeError")
    ELSE IF delete THEN Ok(Translate(seq, TABLE, DELETE))
    ELSE Ok(Translate(seq, TABLE, {}))

\* bytes_to_str(seq: bytes)
bytes_to_str(seq) ==
    LET out == Translate(seq, REVERSE_TABLE, {})
    IN  IF IsAscii(out) THEN Ok(out) ELSE Raise("UnicodeDecodeError")

(***************************************************************************)
(* io.py: get_file_format                                                  *)
(***************************************************************************)
Dot == Ord["."]

\* str.lower() on ASCII letters
ToLower(s) == [i \in DOMAIN s |-> IF s[i] \in 65..90 THEN s[i] + 32 ELSE s[i]]

\* PurePath.suffix: the name from its last dot, unless that dot starts or
\* ends the name.
Suffix(name) ==
    LET dots == {i \in DOMAIN name : name[i] = Dot}
        last == CHOOSE i \in dots : \A j \in dots : j <= i
    IN  IF dots = {} \/ last = 1 \/ last = Len(name) THEN <<>>
        ELSE SubSeq(name, last, Len(name))

\* The name without its suffix.
Stem(name) == SubSeq(name, 1, Len(name) - Len(Suffix(name)))

get_file_format(name) ==
    LET first == ToLower(Suffix(name))
        zipped == first \in {Str(<<".", "g", "z">>), Str(<<".", "b", "z", "2">>)}
        suffix == IF zipped THEN ToLower(Suffix(Stem(name))) ELSE first
    IN  IF zipped /\ Suffix(Stem(name)) = <<>> THEN Raise("IndexError")
        ELSE IF suffix \in {Str(<<".", "f", "a">>), Str(<<".", "f", "n", "a">>),
                            Str(<<".", "f", "a", "s", "t", "a">>)}
            THEN Ok("fasta")
        ELSE IF suffix \in {Str(<<".", "g", "e", "n", "b", "a", "n", "k">>),
                            Str(<<".", "g", "b">>), Str(<<".", "g", "b", "k">>)}
            THEN Ok("genbank")
        ELSE IF suffix \in {Str(<<".", "e", "m", "b", "l">>)} THEN Ok("embl")
        ELSE IF suffix \in {Str(<<".", "t", "a", "b">>), Str(<<".", "t", "s", "v">>)}
            THEN Ok("tab")
        ELSE IF suffix \in {Str(<<".", "n", "e", "x", "u", "s">>),
                            Str(<<".", "n", "x", "s">>)}
            THEN Ok("nexus")
        ELSE IF suffix \in {Str(<<".", "f", "a", "s", "t", "q">>), Str(<<".", "f", "q">>)}
            THEN Ok("fastq")
        ELSE Raise("ValueError")

(***************************************************************************)
(* utils.py: parse_filter                                                  *)
(***************************************************************************)
Whitespace == {Ord[" "], Ord["nl"]}

\* str.strip()
RECURSIVE LStrip(_)
LStrip(s) == IF s # <<>> /\ Head(s) \in Whitespace THEN LStrip(Tail(s)) ELSE s
RECURSIVE RStrip(_)
RStrip(s) ==
    IF s # <<>> /\ s[Len(s)] \in Whitespace THEN RStrip(SubSeq(s, 1, Len(s) - 1))
    ELSE s
Strip(s) == LStrip(RStrip(s))

\* str.split("\n"): the pieces between the newlines, the empty ones too
RECURSIVE Split(_)
Split(s) ==
    LET nls == {i \in DOMAIN s : s[i] = Ord["nl"]}
        first == CHOOSE i \in nls : \A j \in nls : i <= j
    IN  IF nls = {} THEN <<s>>
        ELSE <<SubSeq(s, 1, first - 1)>> \o Split(SubSeq(s, first + 1, Len(s)))

Range(s) == {s[i] : i \in DOMAIN s}

\* A filter argument: None, a list or set of accessions, or the Path of a
\* text file.
FilterNone == [t |-> "None", elems |-> {}, text |-> <<>>]
FilterOf(elems) == [t |-> "set", elems |-> elems, text |-> <<>>]
FilterPath(text) == [t |-> "Path", elems |-> {}, text |-> text]

\* a parse_filter that splits the text of the file as it is
parse_filter_unstripped(filter) ==
    IF filter.t = "None" \/ (filter.t = "set" /\ filter.elems = {}) THEN FilterNone
    ELSE IF filter.t = "Path" THEN FilterOf(Range(Split(filter.text)))
    ELSE FilterOf(filter.elems)

\* a parse_filter that returns an empty collection as an empty set
parse_filter_kept(filter) ==
    IF filter.t = "None" THEN FilterNone
    ELSE IF filter.t = "Path" THEN FilterOf(Range(Split(Strip(filter.text))))
    ELSE FilterOf(filter.elems)

\* parse_filter: `not filter` holds of None and of an empty collection, not
\* of a Path.
parse_filter(filter) ==
    IF filter.t = "None" \/ (filter.t = "set" /\ filter.elems = {}) THEN FilterNone
    ELSE IF filter.t = "Path" THEN FilterOf(Range(Split(Strip(filter.text))))
    ELSE FilterOf(filter.elems)

\* a filter that skips nothing
Skipped_never(filter, accession) == FALSE

\* `filter and accession not in filter` of add_file
Skipped(filter, accession) ==
    filter.t # "None" /\ filter.elems # {} /\ accession \notin filter.elems

(***************************************************************************)
(* seqbank.py: keys and the single-key operations, as functions of the     *)
(* Rdict d                                                                 *)
(***************************************************************************)
\* SeqBank.key: bytes(accession, "ascii")
key(accession) ==
    IF IsAscii(accession) THEN Ok(accession) ELSE Raise("UnicodeEncodeError")

\* "/seqbank/url/"
UrlPrefix == Str(<<"/", "s", "e", "q", "b", "a", "n", "k", "/", "u", "r", "l", "/">>)

\* SeqBank.key_url
key_url(url) == key(UrlPrefix \o url)

\* a put that leaves an entry that is there as it is
Put_absent(d, k, v) == [x \in (DOMAIN d) \cup {k} |-> IF x \in DOMAIN d THEN d[x] ELSE v]

\* Rdict: d[k] = v and del d[k]
Put(d, k, v) == [x \in (DOMAIN d) \cup {k} |-> IF x = k THEN v ELSE d[x]]
Del(d, k) == [x \in (DOMAIN d) \ {k} |-> d[x]]

\* SeqBank.__contains__: any exception gives False
contains(d, accession) ==
    LET k == key(accession) IN IF k.ok THEN k.val \in DOMAIN d ELSE FALSE

\* SeqBank.path
StorePath == Str(<<"s", ".", "s", "b">>)

\* The SeqBankError of __getitem__ 135: its message up to the text of the
\* exception it wraps, and that exception.
SeqBankError(accession, cause) ==
    [ok |-> FALSE, err |-> "SeqBankError",
     msg |-> Str(<<"F", "a", "i", "l", "e", "d", " ", "t", "o", " ", "r", "e", "a", "d", " ">>)
             \o accession
             \o Str(<<" ", "i", "n", " ", "S", "e", "q", "B", "a", "n", "k", " ">>)
             \o StorePath \o Str(<<":", "nl">>),
     cause |-> cause]

\* __getitem__ 131-133: the key, then the read of the Rdict.
Lookup(d, accession) ==
    LET k == key(accession)
    IN  IF ~k.ok THEN Raise(k.err)
        ELSE IF k.val \notin DOMAIN d THEN Raise("KeyError")
        ELSE Ok(d[k.val])

\* a __getitem__ without its except clause
getitem_raw(d, accession) == Lookup(d, accession)

\* SeqBank.__getitem__: any exception becomes SeqBankError
getitem(d, accession) ==
    LET r == Lookup(d, accession)
    IN  IF r.ok THEN r ELSE SeqBankError(accession, r.err)

\* SeqBank.numpy: np.frombuffer(self[accession], dtype="u1")
numpy(d, accession) == getitem(d, accession)

\* SeqBank.string: bytes_to_str(self[accession])
string(d, accession) ==
    LET data == getitem(d, accession)
    IN  IF data.ok THEN bytes_to_str(data.val) ELSE data

\* SeqBank.record: SeqRecord(Seq(self.string(accession)), id=accession,
\* description="")
record(d, accession) ==
    LET text == string(d, accession)
    IN  IF text.ok THEN Ok([id |-> accession, seq |-> text.val, description |-> <<>>])
        ELSE text

\* a delete without the test `key in f`
delete_unchecked(d, accession) ==
    LET k == key(accession)
    IN  IF ~k.ok THEN Raise(k.err)
        ELSE IF k.val \in DOMAIN d THEN Ok(Del(d, k.val)) ELSE Raise("KeyError")

\* SeqBank.delete
delete(d, accession) ==
    LET k == key(accession)
    IN  IF ~k.ok THEN Raise(k.err)
        ELSE IF k.val \in DOMAIN d THEN Ok(Del(d, k.val)) ELSE Ok(d)

\* str.startswith
StartsWith(s, prefix) ==
    Len(s) >= Len(prefix) /\ SubSeq(s, 1, Len(prefix)) = prefix

\* The namespace that get_accessions leaves out.
Namespace == Str(<<"/", "s", "e", "q", "b", "a", "n", "k", "/">>)

\* SeqBank.get_accessions
get_accessions(d) == {k \in DOMAIN d : ~StartsWith(k, Namespace)}

\* The accessions argument of export: None, a list, or the Path of a text
\* file.
AccessionsNone == [t |-> "None", list |-> <<>>, text |-> <<>>]
AccessionsOf(list) == [t |-> "list", list |-> list, text |-> <<>>]
AccessionsPath(text) == [t |-> "Path", list |-> <<>>, text |-> text]

\* The orders in which a Python set may be iterated.
Orders(S) == {list \in [1..Cardinality(S) -> S] : Range(list) = S}

\* export 484-488: the lists the loop may run over.  `accessions or ...`
\* takes get_accessions() for None and for an empty list.
Listings(d, accessions) ==
    IF accessions.t = "None" \/ (accessions.t = "list" /\ accessions.list = <<>>)
    THEN Orders(get_accessions(d))
    ELSE IF accessions.t = "Path" THEN {Split(Strip(accessions.text))}
    ELSE {accessions.list}

\* export 491-493: the records written until the loop ends or record raises
RECURSIVE Written(_, _)
Written(d, list) ==
    IF list = <<>> THEN <<>>
    ELSE LET r == record(d, Head(list))
         IN  IF r.ok THEN <<r.val>> \o Written(d, Tail(list)) ELSE <<>>

\* an export that leaves no record in the file when record raises
export_atomic(d, output, list) ==
    LET format == get_file_format(output)
        rows == Written(d, list)
    IN  IF ~format.ok THEN [end |-> format, rows |-> <<>>]
        ELSE IF Len(rows) < Len(list)
        THEN [end |-> record(d, list[Len(rows) + 1]), rows |-> <<>>]
        ELSE [end |-> Ok(<<>>), rows |-> rows]

\* SeqBank.export over one listing: how the call ends, and the records in
\* the output file (none when the file was not opened).
export(d, output, list) ==
    LET format == get_file_format(output)
        rows == Written(d, list)
    IN  IF ~format.ok THEN [end |-> format, rows |-> <<>>]
        ELSE IF Len(rows) < Len(list)
        THEN [end |-> record(d, list[Len(rows) + 1]), rows |-> rows]
        ELSE [end |-> Ok(<<>>), rows |-> rows]

\* A sequence argument of add: its Python type and its characters or bytes.
StrSeq(v) == [t |-> "str", v |-> v]
RecordSeq(v) == [t |-> "SeqRecord", v |-> v]
BytesSeq(v) == [t |-> "bytes", v |-> v]

\* add that stores the characters of a str without encoding them
add_unencoded(d, seq, accession) ==
    LET k == key(accession)
    IN  IF ~k.ok THEN Raise(k.err)
        ELSE IF ~IsAscii(seq.v) THEN Raise("UnicodeEncodeError")
        ELSE Ok(Put(d, k.val, seq.v))

\* SeqBank.add: a SeqRecord, Seq or str is encoded, anything else is stored
\* as it is.
add(d, seq, accession) ==
    LET k == key(accession)
        b == IF seq.t \in {"SeqRecord", "Seq", "str"} THEN seq_to_bytes(seq.v, TRUE)
             ELSE Ok(seq.v)
    IN  IF ~k.ok THEN Raise(k.err)
        ELSE IF ~b.ok THEN Raise(b.err)
        ELSE Ok(Put(d, k.val, b.val))

\* seen_url that looks the URL up without the prefix
seen_url_unprefixed(d, url) == key(url).val \in DOMAIN d

\* SeqBank.seen_url
seen_url(d, url) == key_url(url).val \in DOMAIN d

\* datetime.now().strftime("%Y-%m-%d %H:%M:%S") as ASCII bytes; the clock
\* counts the seconds of one minute, so only the last field varies.
Strftime(now) ==
    Str(<<"2", "0", "2", "5", "-", "0", "1", "-", "0", "1", " ", "0", "0", ":", "0", "0", ":">>)
        \o <<Ord["0"] + (now \div 10), Ord["0"] + (now % 10)>>

\* SeqBank.save_seen_url
save_seen_url(d, url, now) == Put(d, key_url(url).val, Strftime(now))

\* The loop of SeqBank.add_urls that collects urls_to_add.
RECURSIVE CollectUrls(_, _, _, _)
CollectUrls(d, urls, max, acc) ==
    IF urls = <<>> THEN acc
    ELSE LET acc2 == IF ~seen_url(d, Head(urls)) THEN Append(acc, Head(urls)) ELSE acc
         IN  IF max # 0 /\ Len(acc2) >= max THEN acc2
             ELSE CollectUrls(d, Tail(urls), max, acc2)

\* a list cut to its first max URLs before the seen ones are left out
urls_to_add_cut_first(d, urls, max) ==
    CollectUrls(d, IF max # 0 /\ Len(urls) > max THEN SubSeq(urls, 1, max) ELSE urls, 0, <<>>)

urls_to_add(d, urls, max) == CollectUrls(d, urls, max, <<>>)

\* SeqBank.add_sequence_from_file(accession, file, format): the file is read
\* in its format; it must hold exactly one record, whose sequence is added
\* under the given accession; otherwise SeqBankError.
add_sequence_from_file(d, accession, file, format) ==
    LET fmt == IF format # "" THEN Ok(format) ELSE get_file_format(file.name)
    IN  IF ~fmt.ok THEN Raise(fmt.err)
        ELSE IF file.content.bad THEN Raise("ParseError")
        ELSE IF Len(file.content.records) # 1 THEN Raise("SeqBankError")
        ELSE add(d, StrSeq(file.content.records[1].seq), accession)

(***************************************************************************)
(* dfam.py                                                                 *)
(***************************************************************************)
dfam_url(curated, release) ==
    Str(<<"h", "t", "t", "p", "s", ":", "/", "/", "w", "w", "w", ".", "d", "f", "a", "m", ".", "o", "r", "g", "/", "r", "e", "l", "e", "a", "s", "e", "s", "/">>)
    \o release
    \o Str(<<"/", "f", "a", "m", "i", "l", "i", "e", "s", "/", "D", "f", "a", "m">>)
    \o (IF curated THEN Str(<<"_", "c", "u", "r", "a", "t", "e", "d", "o", "n", "l", "y">>) ELSE <<>>)
    \o Str(<<".", "h", "5", ".", "g", "z">>)

\* Path(url).name: what follows the last "/"
PathName(p) ==
    LET slashes == {i \in DOMAIN p : p[i] = Ord["/"]}
        final == CHOOSE i \in slashes : \A j \in slashes : j <= i
    IN  IF slashes = {} THEN p ELSE SubSeq(p, final + 1, Len(p))

(***************************************************************************)
(* Inputs                                                                  *)
(***************************************************************************)
AccA == Str(<<"a">>)
AccB == Str(<<"b">>)
AccNonAscii == Str(<<"e'">>)                     \* an accession that is not ASCII
UrlU == Str(<<"h", "t", "t", "p", ":", "/", "/", "h", "/", "u", ".", "f", "a">>)
UrlV == Str(<<"h", "t", "t", "p", ":", "/", "/", "h", "/", "v", ".", "f", "a">>)
UrlW == Str(<<"h", "t", "t", "p", ":", "/", "/", "h", "/", "w", ".", "g", "b">>)
AccReserved == UrlPrefix \o UrlU       \* an accession spelled like a URL key
Release == Str(<<"c", "u", "r", "r", "e", "n", "t">>)
DfamUrl == dfam_url(TRUE, Release)

Record(id, seq) == [id |-> id, seq |-> seq]

\* What a sequence file holds: its records in file order, and whether the
\* parser raises on it (it is not of the format it is read as).
Content(records, bad) == [records |-> records, bad |-> bad]
NoContent == Content(<<>>, FALSE)
TwoRecords == Content(<<Record(AccA, Str(<<"A", "C">>)), Record(AccB, Str(<<"g", "N">>))>>, FALSE)
SameTwice == Content(<<Record(AccB, Str(<<"T", "J">>)), Record(AccB, Str(<<"C">>))>>, FALSE)
BadRecord ==
    Content(<<Record(AccA, Str(<<"G">>)), Record(AccNonAscii, Str(<<"A">>)), Record(AccB, Str(<<"T">>))>>, FALSE)
Malformed == Content(<<Record(AccA, Str(<<"G">>))>>, TRUE)
OneRecord == Content(<<Record(AccB, Str(<<"C", "t", "-">>))>>, FALSE)
OnlyA == Content(<<Record(AccA, Str(<<"G", "a">>))>>, FALSE)
Contents == {TwoRecords, SameTwice, BadRecord, Malformed}

File(name, content) == [name |-> name, content |-> content]
NameFa == Str(<<"f", ".", "f", "a">>)
NameGb == Str(<<"g", ".", "g", "b">>)
NameTxt == Str(<<"h", ".", "t", "x", "t">>)

\* The files given to add_file, each with the format argument ("": none).
FileInput(file, format) == [file |-> file, format |-> format]
FileInputs ==
    {FileInput(File(NameFa, TwoRecords), ""), FileInput(File(NameFa, BadRecord), ""),
     FileInput(File(NameGb, SameTwice), ""), FileInput(File(NameGb, Malformed), ""),
     FileInput(File(NameTxt, TwoRecords), ""), FileInput(File(NameTxt, TwoRecords), "fasta"),
     FileInput(File(NameTxt, TwoRecords), "genbank")}
Filters == {FilterNone, FilterOf({}), FilterOf({AccB}), FilterOf({AccA, AccNonAscii})}

\* The filters given to parse_filter on its own: None, the collections over
\* three accessions, and the files with a short text of letters, spaces and
\* newlines.
FilterChars == {Ord["a"], Ord["b"], Ord[" "], Ord["nl"]}
FilterTexts == UNION {[1..n -> FilterChars] : n \in 0..(MaxSeqLen + 1)}
FilterInputs ==
    {FilterNone} \cup {FilterOf(elems) : elems \in SUBSET {AccA, AccB, AccNonAscii}}
        \cup {FilterPath(text) : text \in FilterTexts}

\* What the server may send for an URL.
Served(url) ==
    IF url = UrlV THEN {SameTwice}
    ELSE IF url = UrlW THEN {TwoRecords}
    ELSE Contents

\* The arguments of the batch calls.
UrlLists == {<<UrlU, UrlV, UrlW>>, <<UrlV, UrlU>>, <<UrlU, UrlU>>}
FileLists ==
    {<<File(NameFa, TwoRecords), File(NameGb, SameTwice)>>,
     <<File(NameFa, BadRecord), File(NameFa, TwoRecords)>>,
     <<File(NameGb, SameTwice), File(NameTxt, TwoRecords), File(NameFa, TwoRecords)>>,
     <<File(NameFa, OnlyA), File(NameGb, OneRecord)>>}
Workers == {1, 2}

\* The strings given to the codec: over the alphabet and three characters
\* outside it, one of them not ASCII.
CodecChars ==
    {Ord[c] : c \in {"A", "C", "G", "T", "N", "a", "c", "g", "t", "n", "J", "-", "e'"}}
CodecStrings == UNION {[1..n -> CodecChars] : n \in 0..MaxSeqLen}

\* The bytes given to bytes_to_str on their own: the five codes and two
\* values the reverse table has no letter for.
CodecBytes == {0, 1, 2, 3, 4, 5, 255}
CodecByteStrings == UNION {[1..n -> CodecBytes] : n \in 0..MaxSeqLen}

\* The files and accessions given to add_sequence_from_file, and the
\* accessions read.
SingleFiles == {File(NameFa, OneRecord), File(NameGb, OneRecord), File(NameFa, TwoRecords),
                File(NameTxt, OneRecord), File(NameFa, NoContent)}
SingleAccessions == {AccA, AccNonAscii}
\* The stores copied into: an empty one, and one that holds a under another
\* value, an accession the source never has and the entry of another URL.
AccC == Str(<<"c">>)
OtherStore ==
    save_seen_url(add(add(<<>>, StrSeq(Str(<<"T", "T">>)), AccA).val,
                      StrSeq(Str(<<"G">>)), AccC).val, UrlV, 0)
OtherStores == {<<>>, OtherStore}
ExportOutputs == {NameFa, NameTxt}
ExportAccessions ==
    {AccessionsNone, AccessionsOf(<<>>), AccessionsOf(<<AccB, AccA>>),
     AccessionsOf(<<AccA, AccNonAscii>>),
     AccessionsPath(Str(<<"b", "nl", "a", "nl">>))}
ReadOps == {"getitem", "numpy", "string", "record"}
ReadAccessions == {AccA, AccB, AccNonAscii}

AddSeqs == {StrSeq(Str(<<"A", "T", "C", "G">>)), StrSeq(Str(<<"a", "-">>))}
AddAccessions == {AccA, AccNonAscii, AccReserved}

\* Sequences given to add as bytes: encoded ones, and the letters themselves.
RawSeqs == {BytesSeq(<<1, 4>>), BytesSeq(Str(<<"A", "T">>))}
DeleteAccessions == {AccA, AccB, AccReserved, AccNonAscii}

(***************************************************************************)
(* Calls and their items                                                   *)
(***************************************************************************)
\* One invocation of add_file ("file"), add_url ("url") or download_dfam
\* ("dfam"): its arguments, its position (pc, pos), what it will return, and
\* for the record what it has done (wrote, saved, advanced).
NewTask(kind, url, name, content, format, filter, force, tmp) ==
    [kind |-> kind, url |-> url, name |-> name, content |-> content,
     format |-> format, filter |-> filter, force |-> force, tmp |-> tmp,
     pc |-> "queued", pos |-> 0, total |-> 0, advanced |-> 0,
     ret |-> "none", err |-> "", wrote |-> {}, saved |-> FALSE]

FileTask(file, format, filter) ==
    NewTask("file", <<>>, file.name, file.content, format, filter, FALSE, FALSE)
UrlTask(url, format, force, tmp) ==
    NewTask("url", url, PathName(url), NoContent, format, FilterNone, force, tmp)
DfamTask(curated, release, force) ==
    NewTask("dfam", dfam_url(curated, release), Stem(PathName(dfam_url(curated, release))),
            NoContent, "", FilterNone, force, FALSE)

\* The first lines of the invocation.  add_url 289-291 and download_dfam
\* 60-64: an URL whose key is in the store is not processed again unless
\* force is given.  Then the temporary directory is made.
Entered(t, d) ==
    IF t.kind = "file" THEN [t EXCEPT !.pc = "open"]
    ELSE IF seen_url(d, t.url) /\ ~t.force
         THEN [t EXCEPT !.pc = "done", !.ret = "False"]
    ELSE [t EXCEPT !.pc = IF t.kind = "url" /\ t.tmp THEN "mkdir" ELSE "mkdtemp"]

\* an except clause that goes on to save_seen_url
Raised_marked(t, err) ==
    IF t.kind = "file" THEN [t EXCEPT !.pc = "raised", !.err = err]
    ELSE [t EXCEPT !.pc = "save", !.err = err]

\* an add_file that catches the exception and returns
Raised_caught(t, err) ==
    IF t.kind = "file" THEN [t EXCEPT !.pc = "done", !.ret = "None", !.err = err]
    ELSE [t EXCEPT !.pc = "cleanup", !.ret = "False", !.err = err]

\* An exception in the body: add_url and download_dfam catch it, print it and
\* return False (the with statement then cleans up); add_file lets it out.
Raised(t, err) ==
    IF t.kind = "file" THEN [t EXCEPT !.pc = "raised", !.err = err]
    ELSE [t EXCEPT !.pc = "cleanup", !.ret = "False", !.err = err]

\* a download followed by save_seen_url in place of the ingestion
Downloaded_marked(t, c) == [t EXCEPT !.pc = "save", !.content = c]

\* add_url 296-297 and download_dfam 68-78: the downloaded file is ingested
\* next.
Downloaded(t, c) == [t EXCEPT !.pc = "open", !.content = c]

\* An exception outside the try statement, in the temporary directory's
\* construction or cleanup: it leaves the invocation.
Escaped(t, err) == [t EXCEPT !.pc = "raised", !.ret = "none", !.err = err]

Finished(c) == c.state \in {"idle", "returned", "raised"}
Direct(c) == c.op \in {"add_file", "add_url", "download_dfam"}

NewCall(op, arg) ==
    [op |-> op, arg |-> arg, state |-> "running", ret |-> "none", out |-> <<>>,
     keys |-> {}, rows |-> <<>>]
Completed(op, arg, r) ==
    [op |-> op, arg |-> arg, state |-> IF r.ok THEN "returned" ELSE "raised",
     ret |-> IF r.ok THEN "None" ELSE r.err, out |-> <<>>, keys |-> {}, rows |-> <<>>]

(***************************************************************************)
(* The SeqBank object and its engine handle                                *)
(***************************************************************************)
\* SeqBank(path, write): __attrs_post_init__ has passed, the engine is not
\* opened before the first use of self.file.
NewHandle(write, exists) ==
    [state |-> "unopened", write |-> write, exists |-> exists, found |-> exists,
     closed |-> FALSE]
NoHandle ==
    [state |-> "none", write |-> FALSE, exists |-> FALSE, found |-> FALSE, closed |-> FALSE]

\* a constructor that does not look at the path
post_init_unchecked(write, exists) == Ok(NewHandle(write, exists))

\* SeqBank.__attrs_post_init__, 42-44
post_init(write, exists) ==
    IF ~write /\ ~exists THEN Raise("FileNotFoundError")
    ELSE Ok(NewHandle(write, exists))

\* close 76: self._db.close().  Before the first use of self.file there is
\* no _db attribute.
CloseEngine(h) ==
    IF h.state = "unopened" THEN Raise("AttributeError")
    ELSE Ok([h EXCEPT !.state = "closed"])

\* a close without its except clause
close_unguarded(h) == CloseEngine(h)

\* SeqBank.close, 70-78: any exception is passed over.
close(h) == LET r == CloseEngine(h) IN IF r.ok THEN r ELSE Ok(h)

\* The cached property SeqBank.file, 80-103: the first use opens the Rdict,
\* read_write (which creates the store) or read_only; later uses return the
\* object made then, also when it has been closed.
Opened(h) == IF h.state = "unopened" THEN [h EXCEPT !.state = "open", !.exists = TRUE] ELSE h

\* What a method of the Rdict does on this handle: speedict raises from
\* every method of a closed Rdict, and from a write through a read-only one.
Engine(h, mutating) ==
    IF h.state = "closed" THEN Raise("DbClosedError")
    ELSE IF mutating /\ ~h.write THEN Raise("ReadOnlyError")
    ELSE Ok(Opened(h))

\* __contains__ 158: self.key(accession) in self.file
Membership(h, d, accession) ==
    LET k == key(accession)
    IN  IF ~k.ok THEN Raise(k.err)
        ELSE IF ~Engine(h, FALSE).ok THEN Engine(h, FALSE)
        ELSE Ok(k.val \in DOMAIN d)

\* an except clause that raises the exception again
Caught_reraised(r) == r

\* __contains__ 159-160: except Exception: return False
Caught(r) == IF r.ok THEN r ELSE Ok(FALSE)

\* a __len__ that counts what get_accessions returns
len_accessions(d) == Cardinality({k \in DOMAIN d : ~StartsWith(k, Namespace)})

\* SeqBank.__len__: the keys of the Rdict are counted, all of them.
len(d) == Cardinality(DOMAIN d)

\* The order of the keys in the engine: bytewise.
Before(a, b) ==
    \E i \in 1..(Len(a) + 1) :
        /\ \A j \in 1..(i - 1) : j <= Len(b) /\ a[j] = b[j]
        /\ IF i <= Len(a) THEN i <= Len(b) /\ a[i] < b[i] ELSE i <= Len(b)

RECURSIVE InOrder(_)
InOrder(S) ==
    IF S = {} THEN <<>>
    ELSE LET first == CHOOSE k \in S : \A later \in S \ {k} : Before(k, later)
         IN  <<first>> \o InOrder(S \ {first})

\* SeqBank.items: every key of the Rdict with its value as a u1 array, a
\* pair written as a row whose id is the key and whose seq is the array.
items(d) ==
    LET ks == InOrder(DOMAIN d)
    IN  [i \in 1..Len(ks) |-> [id |-> ks[i], seq |-> d[ks[i]], description |-> <<>>]]

\* copy 427-428, the loop over the items of the source in the order of the
\* engine: other.file[k] = v
RECURSIVE copy_items(_, _, _)
copy_items(source, ks, target) ==
    IF ks = <<>> THEN target
    ELSE copy_items(source, Tail(ks), Put(target, Head(ks), source[Head(ks)]))

\* a copy of the entries of the accessions only
copy_accessions(source, target) ==
    copy_items(source, InOrder({k \in DOMAIN source : ~StartsWith(k, Namespace)}), target)

\* SeqBank.copy
copy(source, target) == copy_items(source, InOrder(DOMAIN source), target)

(***************************************************************************)
(* The state machine                                                       *)
(***************************************************************************)
IdleCall ==
    [op |-> "none", arg |-> <<>>, state |-> "idle", ret |-> "none", out |-> <<>>,
     keys |-> {}, rows |-> <<>>]
NoOther == [d |-> <<>>, write |-> FALSE]
IdleCodec == [pc |-> "idle", s |-> <<>>, delete |-> TRUE, enc |-> Ok(<<>>), dec |-> Ok(<<>>)]
EmptyDir == [exists |-> FALSE, dirs |-> {}, junk |-> FALSE]

Init ==
    /\ db = <<>>
    /\ clock = 0
    /\ fs = EmptyDir
    /\ call = IdleCall
    /\ tasks = <<>>
    /\ log = <<>>
    /\ codec = IdleCodec
    /\ handle = NewHandle(TRUE, FALSE)
    /\ other = NoOther

\* Time passes.
Tick ==
    /\ clock < MaxClock
    /\ clock' = clock + 1
    /\ UNCHANGED <<db, fs, call, tasks, log, codec, handle, other>>

\* seqbank.add(seq, accession)
Add(seq, accession) ==
    /\ Finished(call)
    /\ handle.state # "none"
    /\ LET r == add(db, seq, accession)
           e == Engine(handle, TRUE)
       IN  /\ db' = IF r.ok /\ e.ok THEN r.val ELSE db
           /\ handle' = IF r.ok THEN Opened(handle) ELSE handle
           /\ call' = Completed("add", [seq |-> seq, accession |-> accession],
                                 IF r.ok /\ ~e.ok THEN e ELSE r)
    /\ tasks' = <<>>
    /\ log' = <<>>
    /\ UNCHANGED <<clock, fs, codec, other>>

\* seqbank.delete(accession)
Delete(accession) ==
    /\ Finished(call)
    /\ handle.state # "none"
    /\ LET r == delete(db, accession)
           e == Engine(handle, r.ok /\ contains(db, accession))
       IN  /\ db' = IF r.ok /\ e.ok THEN r.val ELSE db
           /\ handle' = IF r.ok THEN Opened(handle) ELSE handle
           /\ call' = Completed("delete", [accession |-> accession],
                                 IF r.ok /\ ~e.ok THEN e ELSE r)
    /\ tasks' = <<>>
    /\ log' = <<>>
    /\ UNCHANGED <<clock, fs, codec, other>>

\* seqbank.add_sequence_from_file(accession, file)
AddSequenceFromFile(accession, file) ==
    /\ Finished(call)
    /\ handle.state # "none"
    /\ LET r == add_sequence_from_file(db, accession, file, "")
           e == Engine(handle, TRUE)
       IN  /\ db' = IF r.ok /\ e.ok THEN r.val ELSE db
           /\ handle' = IF r.ok THEN Opened(handle) ELSE handle
           /\ call' = Completed("add_sequence_from_file",
                                 [accession |-> accession, file |-> file],
                                 IF r.ok /\ ~e.ok THEN e ELSE r)
    /\ tasks' = <<>>
    /\ log' = <<>>
    /\ UNCHANGED <<clock, fs, codec, other>>

\* A call that returns a value, or raises with a message.  out holds a value
\* that is a str, a bytes or an array, or the message; keys a value that is a
\* set of str; rows a value that is a list of records or of pairs.
Reply(op, arg, r, out, keys, rows) ==
    [op |-> op, arg |-> arg, state |-> IF r.ok THEN "returned" ELSE "raised",
     ret |-> IF r.ok THEN "value" ELSE r.err,
     out |-> IF r.ok THEN out ELSE IF "msg" \in DOMAIN r THEN r.msg ELSE <<>>,
     keys |-> IF r.ok THEN keys ELSE {},
     rows |-> IF r.ok THEN rows ELSE <<>>]

Answered(op, arg, r) == Reply(op, arg, r, r.val, {}, <<>>)

\* seqbank[accession], seqbank.numpy(accession), seqbank.string(accession)
\* and seqbank.record(accession); the read of a closed Rdict raises inside
\* the try of __getitem__.
Read(how, accession) ==
    /\ Finished(call)
    /\ handle.state # "none"
    /\ LET r == IF key(accession).ok /\ ~Engine(handle, FALSE).ok
                THEN SeqBankError(accession, Engine(handle, FALSE).err)
                ELSE CASE how = "getitem" -> getitem(db, accession)
                       [] how = "numpy" -> numpy(db, accession)
                       [] how = "string" -> string(db, accession)
                       [] how = "record" -> record(db, accession)
       IN  call' = IF how = "record"
                   THEN Reply(how, [accession |-> accession], r, <<>>, {}, <<r.val>>)
                   ELSE Answered(how, [accession |-> accession], r)
    /\ handle' = IF key(accession).ok THEN Opened(handle) ELSE handle
    /\ tasks' = <<>>
    /\ log' = <<>>
    /\ UNCHANGED <<db, clock, fs, codec, other>>

\* accession in seqbank
Contains(accession) ==
    /\ Finished(call)
    /\ handle.state # "none"
    /\ LET r == Caught(Membership(handle, db, accession))
       IN  call' = [op |-> "contains", arg |-> [accession |-> accession],
                    state |-> IF r.ok THEN "returned" ELSE "raised",
                    ret |-> IF ~r.ok THEN r.err ELSE IF r.val THEN "True" ELSE "False",
                    out |-> <<>>, keys |-> {}, rows |-> <<>>]
    /\ handle' = IF key(accession).ok THEN Opened(handle) ELSE handle
    /\ tasks' = <<>>
    /\ log' = <<>>
    /\ UNCHANGED <<db, clock, fs, codec, other>>

\* len(seqbank)
Count ==
    /\ Finished(call)
    /\ handle.state # "none"
    /\ call' = Answered("len", <<>>,
                        IF Engine(handle, FALSE).ok THEN Ok(<<len(db)>>) ELSE Engine(handle, FALSE))
    /\ handle' = Opened(handle)
    /\ tasks' = <<>>
    /\ log' = <<>>
    /\ UNCHANGED <<db, clock, fs, codec, other>>

\* for k, v in seqbank.items(), run to its end
Items ==
    /\ Finished(call)
    /\ handle.state # "none"
    /\ call' = Reply("items", <<>>, Engine(handle, FALSE), <<>>, {}, items(db))
    /\ handle' = Opened(handle)
    /\ tasks' = <<>>
    /\ log' = <<>>
    /\ UNCHANGED <<db, clock, fs, codec, other>>

\* SeqBank(path=StorePath, write=write)
Construct(write) ==
    /\ handle.state = "none"
    /\ LET r == post_init(write, handle.exists)
       IN  /\ handle' = IF r.ok THEN r.val ELSE handle
           /\ call' = Completed("SeqBank", [write |-> write, exists |-> handle.exists], r)
    /\ UNCHANGED <<db, clock, fs, tasks, log, codec, other>>

\* seqbank.close()
Close ==
    /\ Finished(call)
    /\ handle.state # "none"
    /\ LET r == close(handle)
       IN  /\ handle' = IF r.ok THEN [r.val EXCEPT !.closed = TRUE] ELSE handle
           /\ call' = Completed("close", <<>>, r)
    /\ tasks' = <<>>
    /\ log' = <<>>
    /\ UNCHANGED <<db, clock, fs, codec, other>>

\* seqbank.copy(other): a write through a read-only target raises at the
\* first item.
Copy ==
    /\ Finished(call)
    /\ handle.state # "none"
    /\ LET e == Engine(handle, FALSE)
           r == IF ~e.ok THEN e
                ELSE IF db # <<>> /\ ~other.write THEN Raise("ReadOnlyError")
                ELSE Ok(copy(db, other.d))
       IN  /\ other' = IF r.ok THEN [other EXCEPT !.d = r.val] ELSE other
           /\ call' = Completed("copy", <<>>, r)
    /\ handle' = Opened(handle)
    /\ tasks' = <<>>
    /\ log' = <<>>
    /\ UNCHANGED <<db, clock, fs, codec>>

\* parse_filter(filter): None, or the set in keys
ParseFilter(filter) ==
    /\ Finished(call)
    /\ LET r == parse_filter(filter)
       IN  call' = [op |-> "parse_filter", arg |-> [filter |-> filter],
                    state |-> "returned",
                    ret |-> IF r.t = "None" THEN "None" ELSE "value",
                    out |-> <<>>, keys |-> r.elems, rows |-> <<>>]
    /\ tasks' = <<>>
    /\ log' = <<>>
    /\ UNCHANGED <<db, clock, fs, codec, handle, other>>

\* seqbank.get_accessions()
GetAccessions ==
    /\ Finished(call)
    /\ handle.state # "none"
    /\ call' = Reply("get_accessions", <<>>, Engine(handle, FALSE), <<>>,
                     get_accessions(db), <<>>)
    /\ handle' = Opened(handle)
    /\ tasks' = <<>>
    /\ log' = <<>>
    /\ UNCHANGED <<db, clock, fs, codec, other>>

\* seqbank.export(output, accessions=accessions); rows holds the records of
\* the output file.  On a closed engine get_accessions raises, and so does
\* the first read.
Export(output, accessions) ==
    /\ Finished(call)
    /\ handle.state # "none"
    /\ \E list \in Listings(db, accessions) :
          LET all == accessions.t = "None"
                       \/ (accessions.t = "list" /\ accessions.list = <<>>)
              closed == ~Engine(handle, FALSE).ok
              r == IF closed /\ all THEN [end |-> Engine(handle, FALSE), rows |-> <<>>]
                   ELSE IF closed /\ get_file_format(output).ok /\ key(Head(list)).ok
                   THEN [end |-> SeqBankError(Head(list), Engine(handle, FALSE).err),
                         rows |-> <<>>]
                   ELSE export(db, output, list)
          IN  /\ call' = [Reply("export", [output |-> output, accessions |-> accessions],
                                r.end, <<>>, {}, <<>>) EXCEPT !.rows = r.rows]
              /\ handle' = IF all \/ (get_file_format(output).ok
                                       /\ \E i \in 1..Len(list) :
                                             /\ i <= Len(r.rows) + 1
                                             /\ key(list[i]).ok)
                            THEN Opened(handle) ELSE handle
    /\ tasks' = <<>>
    /\ log' = <<>>
    /\ UNCHANGED <<db, clock, fs, codec, other>>

\* seqbank.add_file(path, format, filter=filter), called directly
CallAddFile(file, format, filter) ==
    /\ Finished(call)
    /\ call' = NewCall("add_file", [file |-> file, format |-> format, filter |-> filter])
    /\ tasks' = <<Entered(FileTask(file, format, filter), db)>>
    /\ log' = <<>>
    /\ UNCHANGED <<db, clock, fs, codec, handle, other>>

\* seqbank.add_url(url, force=force, tmp_dir=tmp_dir), called directly
CallAddUrl(url, force, tmp) ==
    /\ Finished(call)
    /\ call' = NewCall("add_url", [url |-> url, force |-> force, tmp |-> tmp])
    /\ tasks' = <<Entered(UrlTask(url, "", force, tmp), db)>>
    /\ log' = <<>>
    /\ handle' = Opened(handle)
    /\ UNCHANGED <<db, clock, fs, codec, other>>

\* download_dfam(seqbank, curated, release, force)
CallDfam(curated, release, force) ==
    /\ Finished(call)
    /\ call' = NewCall("download_dfam",
                       [url |-> dfam_url(curated, release), force |-> force, tmp |-> FALSE])
    /\ tasks' = <<Entered(DfamTask(curated, release, force), db)>>
    /\ log' = <<>>
    /\ handle' = Opened(handle)
    /\ UNCHANGED <<db, clock, fs, codec, other>>

\* io.TemporaryDirectory.__init__, 131-134: prefix.mkdir(parents=True,
\* exist_ok=True)
Mkdir(i) ==
    /\ call.state = "running"
    /\ tasks[i].pc = "mkdir"
    /\ fs' = [fs EXCEPT !.exists = TRUE]
    /\ tasks' = [tasks EXCEPT ![i].pc = "mkdtemp"]
    /\ UNCHANGED <<db, clock, call, log, codec, handle, other>>

\* io.TemporaryDirectory.__init__, 141: tempfile's mkdtemp with the prefix
\* "<tmp_dir>/", which fails when that directory is not there.  Without a
\* Path the directory is made in the system's own place.
Mkdtemp(i) ==
    /\ call.state = "running"
    /\ tasks[i].pc = "mkdtemp"
    /\ IF tasks[i].tmp /\ ~fs.exists
       THEN /\ tasks' = [tasks EXCEPT ![i] = Escaped(@, "FileNotFoundError")]
            /\ fs' = fs
       ELSE /\ tasks' = [tasks EXCEPT ![i].pc = "download"]
            /\ fs' = IF tasks[i].tmp THEN [fs EXCEPT !.dirs = @ \cup {i}] ELSE fs
    /\ UNCHANGED <<db, clock, call, log, codec, handle, other>>

\* download_file(url, local_path): it raises, or the file is there with what
\* the server sent.
Download(i) ==
    /\ call.state = "running"
    /\ tasks[i].pc = "download"
    /\ log' = Append(log, tasks[i].url)
    /\ \E ok \in BOOLEAN, c \in Served(tasks[i].url) :
          tasks' = [tasks EXCEPT ![i] =
                       IF ok THEN Downloaded(@, c)
                       ELSE Raised(@, "HTTPError")]
    /\ UNCHANGED <<db, clock, fs, call, codec, handle, other>>

\* a format that is taken to be fasta when none is given
FormatOf_fasta(t) == IF t.format # "" THEN Ok(t.format) ELSE Ok("fasta")

\* The format add_file reads the file as, 218.
FormatOf(t) == IF t.format # "" THEN Ok(t.format) ELSE get_file_format(t.name)

\* add_file 217-235: the filter, the format and the pass that counts the
\* records (seq_count detects the format from the name again); in
\* download_dfam 72-76 and add_dfam 35, gunzip and h5py.File.
Open(i) ==
    /\ call.state = "running"
    /\ tasks[i].pc = "open"
    /\ LET t == tasks[i]
           fmt == FormatOf(t)
           counted == IF fmt.ok /\ fmt.val \notin {"fasta", "fastq"}
                      THEN get_file_format(t.name) ELSE fmt
       IN  tasks' = [tasks EXCEPT ![i] =
               IF t.kind = "dfam"
               THEN IF t.content.bad THEN Raised(t, "OSError")
                    ELSE [t EXCEPT !.pc = "rec", !.pos = 1]
               ELSE IF ~fmt.ok THEN Raised(t, fmt.err)
               ELSE IF ~counted.ok THEN Raised(t, counted.err)
               ELSE IF t.content.bad THEN Raised(t, "ParseError")
               ELSE [t EXCEPT !.pc = "rec", !.pos = 1,
                              !.filter = parse_filter(t.filter),
                              !.total = Len(t.content.records)]]
    /\ UNCHANGED <<db, clock, fs, call, log, codec, handle, other>>

\* What follows the last record: add_file returns None; add_url 298 and
\* download_dfam 81 go on to save_seen_url.
AfterRecords(t) ==
    IF t.kind = "file" THEN [t EXCEPT !.pc = "done", !.ret = "None"]
    ELSE [t EXCEPT !.pc = "save"]

\* What the loop hands to add: pyfastx (229) and add_dfam (41) give the
\* sequence as a str, SeqIO (240) gives the SeqRecord.
SeqArgument(t, r) ==
    IF t.kind = "dfam" \/ FormatOf(t).val \in {"fasta", "fastq"} THEN StrSeq(r.seq)
    ELSE RecordSeq(r.seq)

\* a record loop that takes back what the item wrote when a record fails
Rec_rollback(i) ==
    /\ call.state = "running"
    /\ tasks[i].pc = "rec"
    /\ LET t == tasks[i]
           r == t.content.records[t.pos]
           a == add(db, SeqArgument(t, r), r.id)
       IN  IF t.pos > Len(t.content.records)
           THEN /\ tasks' = [tasks EXCEPT ![i] = AfterRecords(t)]
                /\ db' = db
           ELSE IF t.kind # "dfam" /\ Skipped(t.filter, r.id)
           THEN /\ tasks' = [tasks EXCEPT ![i].pos = @ + 1]
                /\ db' = db
           ELSE IF ~a.ok
           THEN /\ tasks' = [tasks EXCEPT ![i] = Raised(t, a.err)]
                /\ db' = [k \in (DOMAIN db) \ t.wrote |-> db[k]]
           ELSE /\ tasks' = [tasks EXCEPT ![i].pos = @ + 1, ![i].advanced = @ + 1,
                                          ![i].wrote = @ \cup {key(r.id).val}]
                /\ db' = a.val
    /\ handle' = IF db' # db THEN Opened(handle) ELSE handle
    /\ UNCHANGED <<clock, fs, call, log, codec, other>>

\* One turn of the record loop: add_file 226-230 and 236-241, add_dfam 37-41.
Rec(i) ==
    /\ call.state = "running"
    /\ tasks[i].pc = "rec"
    /\ LET t == tasks[i]
           r == t.content.records[t.pos]
           a == add(db, SeqArgument(t, r), r.id)
       IN  IF t.pos > Len(t.content.records)
           THEN /\ tasks' = [tasks EXCEPT ![i] = AfterRecords(t)]
                /\ db' = db
           ELSE IF t.kind # "dfam" /\ Skipped(t.filter, r.id)
           THEN /\ tasks' = [tasks EXCEPT ![i].pos = @ + 1]
                /\ db' = db
           ELSE IF ~a.ok
           THEN /\ tasks' = [tasks EXCEPT ![i] = Raised(t, a.err)]
                /\ db' = db
           ELSE /\ tasks' = [tasks EXCEPT ![i].pos = @ + 1, ![i].advanced = @ + 1,
                                          ![i].wrote = @ \cup {key(r.id).val}]
                /\ db' = a.val
    /\ handle' = IF db' # db THEN Opened(handle) ELSE handle
    /\ UNCHANGED <<clock, fs, call, log, codec, other>>

\* add_url 298 / download_dfam 81: save_seen_url(url), then return True.
Save(i) ==
    /\ call.state = "running"
    /\ tasks[i].pc = "save"
    /\ db' = save_seen_url(db, tasks[i].url, clock)
    /\ tasks' = [tasks EXCEPT ![i].pc = "cleanup", ![i].ret = "True", ![i].saved = TRUE]
    /\ handle' = Opened(handle)
    /\ UNCHANGED <<clock, fs, call, log, codec, other>>

\* The with statement's exit.  io.TemporaryDirectory.cleanup 147: the
\* directory of this invocation is removed.
Cleanup(i) ==
    /\ call.state = "running"
    /\ tasks[i].pc = "cleanup"
    /\ fs' = [fs EXCEPT !.dirs = @ \ {i}]
    /\ tasks' = [tasks EXCEPT ![i].pc = IF tasks[i].kind = "url" /\ tasks[i].tmp
                                        THEN "iterdir" ELSE "done"]
    /\ UNCHANGED <<db, clock, call, log, codec, handle, other>>

\* io.TemporaryDirectory.cleanup 149: any(created_dir.iterdir())
Iterdir(i) ==
    /\ call.state = "running"
    /\ tasks[i].pc = "iterdir"
    /\ tasks' = [tasks EXCEPT ![i] =
           IF ~fs.exists THEN Escaped(@, "FileNotFoundError")
           ELSE IF fs.dirs = {} /\ ~fs.junk THEN [@ EXCEPT !.pc = "rmdir"]
           ELSE [@ EXCEPT !.pc = "done"]]
    /\ UNCHANGED <<db, clock, fs, call, log, codec, handle, other>>

\* io.TemporaryDirectory.cleanup 150: created_dir.rmdir()
Rmdir(i) ==
    /\ call.state = "running"
    /\ tasks[i].pc = "rmdir"
    /\ IF ~fs.exists
       THEN /\ tasks' = [tasks EXCEPT ![i] = Escaped(@, "FileNotFoundError")]
            /\ fs' = fs
       ELSE IF fs.dirs # {} \/ fs.junk
       THEN /\ tasks' = [tasks EXCEPT ![i] = Escaped(@, "OSError")]
            /\ fs' = fs
       ELSE /\ tasks' = [tasks EXCEPT ![i].pc = "done"]
            /\ fs' = [fs EXCEPT !.exists = FALSE]
    /\ UNCHANGED <<db, clock, call, log, codec, handle, other>>

Step(i) ==
    \/ Mkdir(i)
    \/ Mkdtemp(i)
    \/ Download(i)
    \/ Open(i)
    \/ Rec(i)
    \/ Save(i)
    \/ Cleanup(i)
    \/ Iterdir(i)
    \/ Rmdir(i)

\* Every invocation of the call has returned: the call returns, a direct
\* call what its invocation returned, a batch None.
Return ==
    /\ call.state = "running"
    /\ \A i \in DOMAIN tasks : tasks[i].pc = "done"
    /\ call' = [call EXCEPT !.state = "returned",
                            !.ret = IF Direct(call) THEN tasks[1].ret ELSE "None"]
    /\ UNCHANGED <<db, clock, fs, tasks, log, codec, handle, other>>

\* An invocation has raised: the exception leaves the call.  What the other
\* invocations had reached stays as it is, their directories too.
RaiseOut ==
    /\ call.state = "running"
    /\ \E i \in DOMAIN tasks : tasks[i].pc = "raised"
    /\ LET first == CHOOSE i \in DOMAIN tasks :
                        /\ tasks[i].pc = "raised"
                        /\ \A j \in DOMAIN tasks : tasks[j].pc = "raised" => i <= j
       IN  call' = [call EXCEPT !.state = "raised", !.ret = tasks[first].err]
    /\ fs' = [fs EXCEPT !.dirs = {}, !.junk = @ \/ fs.dirs # {}]
    /\ UNCHANGED <<db, clock, tasks, log, codec, handle, other>>

Next ==
    \/ Tick
    \/ \E seq \in AddSeqs, accession \in AddAccessions : Add(seq, accession)
    \/ \E accession \in DeleteAccessions : Delete(accession)
    \/ GetAccessions
    \/ Count
    \/ \E input \in FileInputs, filter \in Filters :
          CallAddFile(input.file, input.format, filter)
    \/ \E url \in {UrlU}, force \in BOOLEAN, tmp \in BOOLEAN : CallAddUrl(url, force, tmp)
    \/ \E force \in BOOLEAN : CallDfam(TRUE, Release, force)
    \/ \E i \in DOMAIN tasks : Step(i)
    \/ Return
    \/ RaiseOut

Spec == Init /\ [][Next]_vars

(***************************************************************************)
(* The codec on its own: a string is encoded, and what came out is decoded. *)
(***************************************************************************)
InitCodec ==
    /\ db = <<>>
    /\ clock = 0
    /\ fs = EmptyDir
    /\ call = IdleCall
    /\ tasks = <<>>
    /\ log = <<>>
    /\ codec \in {[IdleCodec EXCEPT !.pc = "input", !.s = s, !.delete = d] :
                     s \in CodecStrings, d \in BOOLEAN}
                \cup {[IdleCodec EXCEPT !.pc = "bytes", !.enc = Ok(b)] :
                         b \in CodecByteStrings}
    /\ handle = NewHandle(TRUE, FALSE)
    /\ other = NoOther

\* seq_to_bytes(s, delete=delete)
Encode ==
    /\ codec.pc = "input"
    /\ codec' = [codec EXCEPT !.pc = "encoded", !.enc = seq_to_bytes(codec.s, codec.delete)]
    /\ UNCHANGED <<db, clock, fs, call, tasks, log, handle, other>>

\* bytes_to_str of the bytes seq_to_bytes returned
Decode ==
    /\ codec.pc = "encoded"
    /\ codec.enc.ok
    /\ codec' = [codec EXCEPT !.pc = "decoded", !.dec = bytes_to_str(codec.enc.val)]
    /\ UNCHANGED <<db, clock, fs, call, tasks, log, handle, other>>

\* bytes_to_str of bytes that did not come from seq_to_bytes
DecodeBytes ==
    /\ codec.pc = "bytes"
    /\ codec' = [codec EXCEPT !.pc = "text", !.dec = bytes_to_str(codec.enc.val)]
    /\ UNCHANGED <<db, clock, fs, call, tasks, log, handle, other>>

NextCodec ==
    \/ Encode
    \/ Decode
    \/ DecodeBytes

SpecCodec == InitCodec /\ [][NextCodec]_vars

(***************************************************************************)
(* The batch calls: add_urls and add_files hand their items to joblib's     *)
(* Parallel, which starts them in list order on at most `workers` threads.  *)
(***************************************************************************)
\* A store that an earlier add_url(UrlU) has filled: the two records of the
\* file and the entry of the URL.
StoreAfterU ==
    save_seen_url(add(add(<<>>, StrSeq(TwoRecords.records[1].seq), AccA).val,
                      StrSeq(TwoRecords.records[2].seq), AccB).val, UrlU, 0)

\* The batch call is made on a store just opened, new or filled before.
InitBatch ==
    /\ db \in {<<>>, StoreAfterU}
    /\ clock = 0
    /\ fs = EmptyDir
    /\ call = IdleCall
    /\ tasks = <<>>
    /\ log = <<>>
    /\ codec = IdleCodec
    /\ handle = NewHandle(TRUE, db # <<>>)
    /\ other = NoOther

\* seqbank.add_urls(urls, max=max, force=force, workers=workers, tmp_dir=tmp_dir)
CallAddUrls(urls, max, force, workers, tmp) ==
    /\ call = IdleCall
    /\ call' = NewCall("add_urls", [urls |-> urls, max |-> max, force |-> force,
                                    workers |-> workers, tmp |-> tmp])
    /\ LET list == urls_to_add(db, urls, max)
       IN  tasks' = [i \in 1..Len(list) |-> UrlTask(list[i], "", force, tmp)]
    /\ log' = <<>>
    /\ handle' = Opened(handle)
    /\ UNCHANGED <<db, clock, fs, codec, other>>

\* seqbank.add_files(files, max=max, workers=workers, filter=filter): max is
\* not read.
CallAddFiles(files, max, workers, filter) ==
    /\ call = IdleCall
    /\ call' = NewCall("add_files", [files |-> files, max |-> max, workers |-> workers,
                                     filter |-> filter])
    /\ tasks' = [i \in 1..Len(files) |-> FileTask(files[i], "", parse_filter(filter))]
    /\ log' = <<>>
    /\ UNCHANGED <<db, clock, fs, codec, handle, other>>

\* The items a thread is working on.
InFlight == {j \in DOMAIN tasks : tasks[j].pc \notin {"queued", "done", "raised"}}

\* Parallel starts the next item of the list when a worker is free; once an
\* item has raised it starts no other.
Dispatch(i) ==
    /\ call.state = "running"
    /\ tasks[i].pc = "queued"
    /\ \A j \in DOMAIN tasks : (j < i => tasks[j].pc # "queued") /\ tasks[j].pc # "raised"
    /\ Cardinality(InFlight) < call.arg.workers
    /\ tasks' = [tasks EXCEPT ![i] = Entered(@, db)]
    /\ handle' = IF tasks[i].kind = "file" THEN handle ELSE Opened(handle)
    /\ UNCHANGED <<db, clock, fs, call, log, codec, other>>

NextBatch ==
    \/ \E urls \in UrlLists, max \in 0..MaxBatch, force \in BOOLEAN,
          workers \in Workers, tmp \in BOOLEAN :
          CallAddUrls(urls, max, force, workers, tmp)
    \/ \E files \in FileLists, max \in 0..MaxBatch, workers \in Workers, filter \in Filters :
          CallAddFiles(files, max, workers, filter)
    \/ \E i \in DOMAIN tasks : Dispatch(i)
    \/ \E i \in DOMAIN tasks : Step(i)
    \/ Return
    \/ RaiseOut

SpecBatch == InitBatch /\ [][NextBatch]_vars

(***************************************************************************)
(* The store on its own: single calls on a store that may hold sequences   *)
(* and URL entries already.                                                *)
(***************************************************************************)
NextStore ==
    \/ \E seq \in AddSeqs \cup RawSeqs, accession \in AddAccessions : Add(seq, accession)
    \/ \E accession \in DeleteAccessions : Delete(accession)
    \/ \E accession \in SingleAccessions, file \in SingleFiles :
          AddSequenceFromFile(accession, file)
    \/ \E how \in ReadOps, accession \in ReadAccessions : Read(how, accession)
    \/ \E accession \in ReadAccessions : Contains(accession)
    \/ GetAccessions
    \/ \E output \in ExportOutputs, accessions \in ExportAccessions :
          Export(output, accessions)

SpecStore == InitBatch /\ [][NextStore]_vars

(***************************************************************************)
(* The life of one SeqBank object: it is constructed on a path that exists *)
(* or not, used, and closed at any moment.                                 *)
(***************************************************************************)
InitHandle ==
    /\ db \in {<<>>, StoreAfterU}
    /\ clock = 0
    /\ fs = EmptyDir
    /\ call = IdleCall
    /\ tasks = <<>>
    /\ log = <<>>
    /\ codec = IdleCodec
    /\ handle \in {[NoHandle EXCEPT !.exists = e] : e \in IF db = <<>> THEN BOOLEAN ELSE {TRUE}}
    /\ other = NoOther

NextHandle ==
    \/ \E write \in BOOLEAN : Construct(write)
    \/ Close
    \/ \E seq \in AddSeqs : Add(seq, AccA)
    \/ \E accession \in {AccA, AccB} : Delete(accession)
    \/ \E accession \in ReadAccessions : Read("getitem", accession)
    \/ \E accession \in ReadAccessions : Contains(accession)
    \/ Count
    \/ Items

SpecHandle == InitHandle /\ [][NextHandle]_vars

(***************************************************************************)
(* The filter parser on its own.                                           *)
(***************************************************************************)
NextFilter == \E filter \in FilterInputs : ParseFilter(filter)

SpecFilter == Init /\ [][NextFilter]_vars

(***************************************************************************)
(* Two stores: the source is written and then copied into the other.       *)
(***************************************************************************)
InitCopy ==
    /\ db \in {<<>>, StoreAfterU}
    /\ clock = 0
    /\ fs = EmptyDir
    /\ call = IdleCall
    /\ tasks = <<>>
    /\ log = <<>>
    /\ codec = IdleCodec
    /\ handle = NewHandle(TRUE, db # <<>>)
    /\ other \in {[d |-> o, write |-> w] : o \in OtherStores, w \in BOOLEAN}

NextCopy ==
    \/ \E seq \in AddSeqs, accession \in AddAccessions : Add(seq, accession)
    \/ \E accession \in DeleteAccessions : Delete(accession)
    \/ Copy

SpecCopy == InitCopy /\ [][NextCopy]_vars

(***************************************************************************)
(* Properties                                                              *)
(***************************************************************************)
\* The step puts or deletes key k: an add, add_sequence_from_file or delete, a
\* record of an ingestion, or the bookkeeping entry of an URL.
Touches(k) ==
    \/ /\ Finished(call)
       /\ call' # call
       /\ call'.op \in {"add", "delete", "add_sequence_from_file"}
       /\ key(call'.arg.accession) = Ok(k)
    \/ \E i \in DOMAIN tasks :
          /\ i \in DOMAIN tasks'
          /\ tasks'[i] # tasks[i]
          /\ \/ /\ tasks[i].pc = "rec"
                /\ tasks[i].pos <= Len(tasks[i].content.records)
                /\ key(tasks[i].content.records[tasks[i].pos].id) = Ok(k)
             \/ /\ tasks[i].pc = "save"
                /\ key_url(tasks[i].url) = Ok(k)

\* C1: after add(s, a) of a str s has returned, a is in the store and the
\* value read back is seq_to_bytes(s); and the value under a key changes
\* only in a step that puts or deletes that key.
C1_AddThenRead ==
    /\ [](call.op = "add" /\ call.state = "returned" /\ call.arg.seq.t = "str"
            => /\ contains(db, call.arg.accession)
               /\ numpy(db, call.arg.accession) = seq_to_bytes(call.arg.seq.v, TRUE))
    /\ [][\A k \in DOMAIN db : (k \notin DOMAIN db' \/ db'[k] # db[k]) => Touches(k)]_vars

\* "ATCG" was added under a and reads back as 1,4,2,3 after a later delete of b.
C1_Witness ==
    /\ call.op = "delete" /\ call.state = "returned" /\ call.arg.accession = AccB
    /\ numpy(db, AccA) = Ok(<<1, 4, 2, 3>>)

\* The direct call is add_url or download_dfam.
UrlCall(c) == c.op \in {"add_url", "download_dfam"}

\* C2: when add_url(u) (or download_dfam) has returned True and the next call
\* is the same with force=False, that call is over at once with False, it
\* downloads nothing, ingests nothing and leaves the store as it is, the
\* timestamp of u included.
C2_SecondCallSkips ==
    /\ [][(/\ UrlCall(call) /\ call.state = "returned" /\ call.ret = "True"
           /\ call'.state = "running" /\ call'.op = call.op
           /\ call'.arg.url = call.arg.url /\ ~call'.arg.force)
          => /\ tasks'[1].pc = "done" /\ tasks'[1].ret = "False"
             /\ tasks'[1].wrote = {} /\ ~tasks'[1].saved
             /\ log' = <<>> /\ db' = db]_vars
    /\ [][(UrlCall(call) /\ call.state = "running" /\ tasks[1].pc = "done")
          => /\ db' = db /\ log' = log
             /\ call' # call => call'.state = "returned" /\ call'.ret = tasks[1].ret]_vars

\* The second add_url(u) returned False a second after the first one wrote
\* the timestamp, which is still the first one's; nothing was downloaded.
C2_Witness ==
    /\ call.op = "add_url" /\ call.state = "returned" /\ call.ret = "False"
    /\ ~call.arg.force /\ log = <<>> /\ clock = 1
    /\ getitem(db, UrlPrefix \o UrlU) = Ok(Strftime(0))
    /\ contains(db, AccA)

\* C3: an ingestion of an URL that has written the bookkeeping entry has put
\* every record of the downloaded file into the store before.
C3_EntryAfterRecords ==
    \A i \in DOMAIN tasks :
        tasks[i].saved =>
            LET records == tasks[i].content.records
            IN  /\ tasks[i].pos > Len(records)
                /\ seen_url(db, tasks[i].url)
                /\ \A j \in DOMAIN records :
                       /\ key(records[j].id).val \in tasks[i].wrote
                       /\ contains(db, records[j].id)

\* add_url has just written the entry of u, after both records of the file.
C3_Witness ==
    /\ call.op = "add_url" /\ call.state = "running"
    /\ tasks[1].saved /\ tasks[1].pc = "cleanup" /\ tasks[1].content = TwoRecords
    /\ seen_url(db, UrlU) /\ contains(db, AccA) /\ contains(db, AccB)

\* The step in which the download or the ingestion of item i raises.
Fails(i) ==
    /\ i \in DOMAIN tasks /\ i \in DOMAIN tasks'
    /\ tasks[i].pc \in {"download", "open", "rec"}
    /\ tasks[i].err = "" /\ tasks'[i].err # ""

\* C4: when the download or the ingestion raises in add_url(u) or
\* download_dfam, the exception stays inside: the call returns False, it
\* writes no bookkeeping entry, and the next call for u without force goes on
\* to the download again.
C4_FailureReturnsFalse ==
    /\ [][\A i \in DOMAIN tasks :
            (Fails(i) /\ tasks[i].kind \in {"url", "dfam"})
            => /\ tasks'[i].pc # "raised" /\ tasks'[i].ret = "False"
               /\ ~tasks'[i].saved /\ db' = db]_vars
    /\ []((UrlCall(call) /\ tasks[1].err # "")
            => /\ call.state # "raised"
               /\ ~tasks[1].saved
               /\ call.state = "returned" => call.ret = "False")
    /\ [][(/\ UrlCall(call) /\ call.state = "returned" /\ tasks[1].err # ""
           /\ ~call.arg.force
           /\ call'.state = "running" /\ call'.op = call.op
           /\ call'.arg.url = call.arg.url /\ ~call'.arg.force)
          => tasks'[1].pc \in {"mkdir", "mkdtemp"}]_vars

\* add_url(u) returned False after the second record of the file raised; the
\* first record is in the store, the entry of u is not.
C4_Witness ==
    /\ call.op = "add_url" /\ call.state = "returned" /\ call.ret = "False"
    /\ tasks[1].err = "UnicodeEncodeError" /\ tasks[1].content = BadRecord
    /\ log = <<UrlU>>
    /\ contains(db, AccA) /\ ~seen_url(db, UrlU)

\* The accessions of the records of item t that are members of F.
Members(t, F) ==
    {t.content.records[j].id : j \in {n \in DOMAIN t.content.records : t.content.records[n].id \in F}}

\* C10: add_file with a non-empty filter F writes only keys of records whose
\* accession is in F, all of them when it returns, and changes no entry of
\* another key.
C10_FilterWrites ==
    /\ []((call.op = "add_file" /\ call.arg.filter.t = "set" /\ call.arg.filter.elems # {})
            => /\ tasks[1].wrote \subseteq Members(tasks[1], call.arg.filter.elems)
               /\ call.state = "returned"
                    => tasks[1].wrote = Members(tasks[1], call.arg.filter.elems))
    /\ [][(/\ call.op = "add_file" /\ call.state = "running"
           /\ call.arg.filter.t = "set" /\ call.arg.filter.elems # {})
          => \A k \in (DOMAIN db) \cup (DOMAIN db') :
                (k \notin DOMAIN db \/ k \notin DOMAIN db' \/ db'[k] # db[k])
                => k \in call.arg.filter.elems]_vars

\* add_file of the file with records a and b and filter {b} has returned: it
\* wrote b, and a still holds the "ATCG" added before.
C10_Witness ==
    /\ call.op = "add_file" /\ call.state = "returned"
    /\ call.arg.filter = FilterOf({AccB}) /\ call.arg.file.content = TwoRecords
    /\ tasks[1].wrote = {AccB}
    /\ numpy(db, AccB) = Ok(<<3, 0>>)
    /\ numpy(db, AccA) = Ok(<<1, 4, 2, 3>>)

\* The URLs of a list that have no bookkeeping entry in store d, in list
\* order, and the first m of them.
Unseen(d, urls) == SelectSeq(urls, LAMBDA u : (UrlPrefix \o u) \notin DOMAIN d)
FirstUnseen(d, urls, m) ==
    IF m > 0 /\ Len(Unseen(d, urls)) > m THEN SubSeq(Unseen(d, urls), 1, m)
    ELSE Unseen(d, urls)

\* C5: the items add_urls(urls, max=m) hands to add_url are the first m URLs
\* of the list without a bookkeeping entry, all of them when m = 0, in list
\* order; they are started in that order and no other URL is downloaded.
C5_FirstUnseenDispatched ==
    /\ [][(Finished(call) /\ call'.op = "add_urls" /\ call'.state = "running")
          => /\ DOMAIN tasks' = 1..Len(FirstUnseen(db, call'.arg.urls, call'.arg.max))
             /\ \A i \in DOMAIN tasks' :
                    /\ tasks'[i].url = FirstUnseen(db, call'.arg.urls, call'.arg.max)[i]
                    /\ tasks'[i].pc = "queued"]_vars
    /\ [](call.op = "add_urls"
            => /\ \A i \in DOMAIN tasks : \A j \in 1..(i - 1) :
                      tasks[i].pc # "queued" => tasks[j].pc # "queued"
               /\ \A n \in DOMAIN log : \E i \in DOMAIN tasks :
                      tasks[i].url = log[n] /\ tasks[i].pc # "queued")
    /\ [][call.op = "add_urls"
          => /\ DOMAIN tasks' = DOMAIN tasks
             /\ \A i \in DOMAIN tasks : tasks'[i].url = tasks[i].url]_vars

\* add_urls([u, v, w], max=1) on a store that has seen u has returned: its only
\* item was v, the only download.
C5_Witness ==
    /\ call.op = "add_urls" /\ call.state = "returned"
    /\ call.arg.urls = <<UrlU, UrlV, UrlW>> /\ call.arg.max = 1
    /\ seen_url(db, UrlU)
    /\ Len(tasks) = 1 /\ tasks[1].url = UrlV /\ tasks[1].ret = "True"
    /\ log = <<UrlV>>

\* C6: when an item of add_urls has failed (add_url caught the exception and
\* returned False), add_urls does not raise, and when it returns every other
\* item has been ingested and its URL is marked seen.
C6_FailureDoesNotAbort ==
    (/\ call.op = "add_urls"
     /\ \E j \in DOMAIN tasks : tasks[j].ret = "False" /\ tasks[j].err # "")
    => /\ call.state # "raised"
       /\ call.state = "returned"
            => \A i \in DOMAIN tasks :
                  tasks[i].err = "" => tasks[i].pc = "done" /\ seen_url(db, tasks[i].url)

\* The file that raised in the batch, the first in list order.
FirstRaised == CHOOSE i \in DOMAIN tasks :
                   /\ tasks[i].pc = "raised"
                   /\ \A j \in DOMAIN tasks : tasks[j].pc = "raised" => i <= j

\* C7 as the code has it: an exception in the ingestion of one file is not
\* caught, it leaves add_file and then add_files, which never returns
\* normally; with one worker the files before it have been ingested, the
\* files after it are never started, and what the failing file had written
\* stays in the store.
C7_FailureLeavesBatch ==
    /\ [][\A i \in DOMAIN tasks :
            (Fails(i) /\ tasks[i].kind = "file")
            => /\ tasks'[i].pc = "raised"
               /\ db' = db]_vars
    /\ []((call.op = "add_files" /\ \E i \in DOMAIN tasks : tasks[i].err # "")
            => /\ call.state # "returned"
               /\ \E i \in DOMAIN tasks : tasks[i].pc = "raised")
    /\ []((call.op = "add_files" /\ call.state = "raised")
            => /\ call.ret = tasks[FirstRaised].err
               /\ \A k \in tasks[FirstRaised].wrote : k \in DOMAIN db
               /\ call.arg.workers = 1
                    => \A j \in DOMAIN tasks :
                          /\ j < FirstRaised => tasks[j].pc = "done"
                          /\ j > FirstRaised => tasks[j].pc = "queued" /\ tasks[j].wrote = {})

\* add_files of two files with one worker has raised in the second record of
\* the first file: its first record is in the store, the second file was not
\* started.
C7_Witness ==
    /\ call.op = "add_files" /\ call.state = "raised" /\ call.ret = "UnicodeEncodeError"
    /\ call.arg.workers = 1 /\ call.arg.filter = FilterNone
    /\ tasks[1].pc = "raised" /\ tasks[1].wrote = {AccA}
    /\ tasks[2].pc = "queued" /\ tasks[2].content = TwoRecords
    /\ numpy(db, AccA) = Ok(<<3>>) /\ ~contains(db, AccB)

\* C7 as stated: a failure in one file of add_files is caught per item; the
\* call does not raise and every other file is ingested.
C7_FailureCaughtPerItem ==
    call.op = "add_files"
    => /\ call.state # "raised"
       /\ \A i \in DOMAIN tasks : tasks[i].pc # "raised"
       /\ call.state = "returned"
            => \A i \in DOMAIN tasks : tasks[i].err = "" => tasks[i].pc = "done"

\* The alphabet of the codec, upper() of a string over it, and the code of
\* a character of it.
Alphabet == {Ord[c] : c \in {"A", "C", "G", "T", "N", "a", "c", "g", "t", "n"}}
Upper(s) == [i \in DOMAIN s |-> IF s[i] >= Ord["a"] THEN s[i] - 32 ELSE s[i]]
CodeOf(c) ==
    CASE c \in {Ord["A"], Ord["a"]} -> 1
      [] c \in {Ord["C"], Ord["c"]} -> 2
      [] c \in {Ord["G"], Ord["g"]} -> 3
      [] c \in {Ord["T"], Ord["t"]} -> 4
      [] OTHER -> 0

\* C8: for a string s over the alphabet ACGTNacgtn, seq_to_bytes(s) is one
\* byte per character and bytes_to_str of it is upper(s).
C8_RoundTrip ==
    (Range(codec.s) \subseteq Alphabet)
    => /\ codec.pc \in {"encoded", "decoded"}
            => codec.enc.ok /\ Len(codec.enc.val) = Len(codec.s)
       /\ codec.pc = "decoded" => codec.dec = Ok(Upper(codec.s))

\* "aNt" was encoded with the default delete=True and decoded to "ANT".
C8_Witness ==
    /\ codec.pc = "decoded" /\ codec.delete
    /\ codec.s = Str(<<"a", "N", "t">>)
    /\ codec.enc = Ok(<<1, 0, 4>>)
    /\ codec.dec = Ok(Str(<<"A", "N", "T">>))

\* C9: for a string s with a character outside the alphabet, delete=True
\* gives the codes of the other characters in their order, fewer bytes than
\* s has characters; delete=False gives one byte per character, 0 for each
\* character outside the alphabet.
C9_UnknownCharacters ==
    (codec.pc \in {"encoded", "decoded"} /\ ~(Range(codec.s) \subseteq Alphabet))
    => /\ codec.enc.ok
       /\ codec.delete
            => LET kept == SelectSeq(codec.s, LAMBDA c : c \in Alphabet)
               IN  /\ Len(codec.enc.val) < Len(codec.s)
                   /\ codec.enc.val = [i \in DOMAIN kept |-> CodeOf(kept[i])]
       /\ ~codec.delete
            => codec.enc.val = [i \in DOMAIN codec.s |-> CodeOf(codec.s[i])]
\* What the codec makes of a string: the codes of its characters of the
\* alphabet, in their order.
Encoded(s) ==
    LET kept == SelectSeq(s, LAMBDA c : c \in Alphabet)
    IN  [i \in DOMAIN kept |-> CodeOf(kept[i])]

\* C11: add_sequence_from_file(accession, file) on a file with one record puts
\* that record's sequence under the given accession and touches no other key,
\* the record's own id included; on a file with more than one record it
\* raises SeqBankError and the store stays as it is.
C11_SingleRecordFile ==
    [][(call'.op = "add_sequence_from_file" /\ call' # call)
       => LET records == call'.arg.file.content.records
              k == call'.arg.accession
          IN  /\ Len(records) > 1
                    => call'.state = "raised" /\ call'.ret = "SeqBankError" /\ db' = db
              /\ call'.state = "raised" => db' = db
              /\ call'.state = "returned"
                    => /\ Len(records) = 1
                       /\ DOMAIN db' = (DOMAIN db) \cup {k}
                       /\ db'[k] = Encoded(records[1].seq)
                       /\ \A x \in (DOMAIN db) \ {k} : db'[x] = db[x]
              /\ (Len(records) = 1 /\ IsAscii(k) /\ get_file_format(call'.arg.file.name).ok)
                    => call'.state = "returned"]_vars

\* The file's record b was stored under a, and b is not in the store.
C11_Witness ==
    /\ call.op = "add_sequence_from_file" /\ call.state = "returned"
    /\ call.arg.accession = AccA /\ call.arg.file.content = OneRecord
    /\ numpy(db, AccA) = Ok(<<2, 4>>)
    /\ ~contains(db, AccB)

\* s occurs in t as a run of consecutive characters.
Within(s, t) ==
    \E i \in 0..(Len(t) - Len(s)) : \A j \in DOMAIN s : t[i + j] = s[j]

\* C12: store[a], numpy(a), string(a) and record(a) of an accession that is
\* not in the store raise SeqBankError, whose message names the accession and
\* the path of the store.
C12_AbsentReadRaises ==
    (call.op \in ReadOps /\ call.arg.accession \notin DOMAIN db)
    => /\ call.state = "raised"
       /\ call.ret = "SeqBankError"
       /\ Within(call.arg.accession, call.out)
       /\ Within(StorePath, call.out)

\* record(b) raised SeqBankError on a store that holds a only.
C12_Witness ==
    /\ call.op = "record" /\ call.state = "raised" /\ call.ret = "SeqBankError"
    /\ call.arg.accession = AccB
    /\ contains(db, AccA) /\ ~contains(db, AccB)

\* C13: `accession in seqbank` never raises; when the check cannot be made,
\* on a closed handle or for an accession that is not ASCII, it returns False;
\* it changes nothing in the store, and nothing of the handle in those cases.
C13_ContainsNeverRaises ==
    /\ [](call.op = "contains"
            => /\ call.state = "returned"
               /\ call.ret \in {"True", "False"}
               /\ (handle.state = "closed" \/ ~IsAscii(call.arg.accession))
                    => call.ret = "False"
               /\ (handle.state = "open" /\ call.arg.accession \in DOMAIN db)
                    => call.ret = "True")
    /\ [][(call'.op = "contains" /\ call' # call)
          => /\ db' = db
             /\ (handle.state = "closed" \/ ~IsAscii(call'.arg.accession))
                  => handle' = handle]_vars

\* a was added, the handle was closed, and `a in seqbank` returned False.
C13_Witness ==
    /\ call.op = "contains" /\ call.state = "returned" /\ call.ret = "False"
    /\ call.arg.accession = AccA
    /\ handle.state = "closed" /\ AccA \in DOMAIN db

\* C15: close() never raises, whether the engine was never opened, is open or
\* is closed already.
C15_CloseNeverRaises ==
    /\ [](call.op = "close" => call.state = "returned" /\ handle.state # "open")
    /\ [][(call'.op = "close" /\ Finished(call) /\ handle' # handle)
          => /\ handle.state \in {"unopened", "open", "closed"}
             /\ db' = db]_vars

\* close() has returned on a handle whose engine was never opened.
C15_Witness ==
    /\ call.op = "close" /\ call.state = "returned"
    /\ handle.state = "unopened" /\ handle.closed

\* close() has returned on a handle whose engine had been opened.
C15_WitnessOpened ==
    /\ call.op = "close" /\ call.state = "returned"
    /\ handle.state = "closed" /\ handle.closed

\* The operations on the data of the store.
DataOps == {"getitem", "add", "delete", "contains", "len", "items"}

\* C16: once close() has been called, every later get, add, delete, contains,
\* iteration or count fails, and the engine is not opened again.
C16_ClosedStaysClosed ==
    (handle.closed /\ call.op \in DataOps)
    => /\ call.state = "raised"
       /\ handle.state # "open"

\* C17: SeqBank(path, write=False) on a path that does not exist raises
\* FileNotFoundError and no engine is opened; with write=True it does not
\* raise, the path is still absent after the construction and exists once the
\* engine has been opened by the first access.
C17_Construction ==
    /\ [](call.op = "SeqBank"
            => /\ (~call.arg.write /\ ~call.arg.exists)
                    => /\ call.state = "raised" /\ call.ret = "FileNotFoundError"
                       /\ handle.state = "none" /\ ~handle.exists
               /\ (call.arg.write \/ call.arg.exists)
                    => /\ call.state = "returned"
                       /\ handle.state = "unopened"
                       /\ handle.exists = call.arg.exists)
    /\ [](handle.state \in {"open", "closed"} => handle.exists)
    /\ [](handle.state = "unopened" => handle.exists = handle.found)
    /\ [][(handle.state = "unopened" /\ handle'.state = "open")
          => /\ handle'.exists
             /\ ~handle.found => handle.write]_vars

\* The store was constructed with write=True on a path that was not there, and
\* the first add has made it.
C17_Witness ==
    /\ handle.write /\ ~handle.found /\ handle.exists /\ handle.state = "open"
    /\ call.op = "add" /\ call.state = "returned"

\* C14: delete(a), for an accession a that key() accepts, returns without an
\* error; afterwards a is not in the store and every other key has the value
\* it had; when a was not in the store the store is unchanged.
C14_DeleteFrame ==
    [][(call'.op = "delete" /\ Finished(call) /\ IsAscii(call'.arg.accession))
       => LET a == call'.arg.accession
          IN  /\ call'.state = "returned"
              /\ a \notin DOMAIN db'
              /\ DOMAIN db' = DOMAIN db \ {a}
              /\ \A kept \in DOMAIN db' : db'[kept] = db[kept]
              /\ a \notin DOMAIN db => db' = db]_vars

\* delete(b) has returned on a store that holds a and the entry of the URL,
\* and never held b.
C14_Witness ==
    /\ call.op = "delete" /\ call.state = "returned" /\ call.arg.accession = AccB
    /\ DOMAIN db = {AccA, key_url(UrlU).val}

\* delete(a) has returned on a store that held a, b and the entry of the URL.
C14_WitnessPresent ==
    /\ call.op = "delete" /\ call.state = "returned" /\ call.arg.accession = AccA
    /\ DOMAIN db = {AccB, key_url(UrlU).val}

\* An entry that holds an encoded sequence: byte values 0..4 only.
HoldsSequence(d, k) == k \in DOMAIN d /\ Range(d[k]) \subseteq 0..4

\* The text of an encoded sequence.
Letters == Str(<<"N", "A", "C", "G", "T">>)
TextOf(v) == [i \in DOMAIN v |-> Letters[v[i] + 1]]

\* C18: export(output) with no accessions argument, on an output whose format
\* is known, returns, and the file then holds exactly one record for each
\* entry of the store that holds a sequence and none for another key; the
\* record has the accession as id and the text of the stored sequence.
C18_ExportAll ==
    (call.op = "export" /\ call.arg.accessions.t = "None"
        /\ get_file_format(call.arg.output).ok)
    => /\ call.state = "returned"
       /\ \A k \in DOMAIN db :
             HoldsSequence(db, k)
             => Cardinality({i \in DOMAIN call.rows : call.rows[i].id = k}) = 1
       /\ \A i \in DOMAIN call.rows :
             /\ HoldsSequence(db, call.rows[i].id)
             /\ call.rows[i].seq = TextOf(db[call.rows[i].id])

\* The accessions an explicit argument of export names, in its order.
Named(accessions) ==
    IF accessions.t = "Path" THEN Split(Strip(accessions.text)) ELSE accessions.list

\* C19: export with a list of accessions, or with a file of accessions, that
\* returns has written one record per element of the list, in the order of
\* the list, and no other record.
C19_ExportListed ==
    (call.op = "export" /\ call.arg.accessions.t \in {"list", "Path"}
        /\ call.state = "returned")
    => /\ Len(call.rows) = Len(Named(call.arg.accessions))
       /\ \A i \in DOMAIN call.rows : call.rows[i].id = Named(call.arg.accessions)[i]

\* C20: get_accessions() returns exactly the accessions in the store: every
\* entry that holds a sequence is in the result, everything in the result is
\* a key of the store, and no key under the prefix of the URL entries is.
C20_AccessionsExact ==
    (call.op = "get_accessions" /\ call.state = "returned")
    => /\ \A k \in DOMAIN db : HoldsSequence(db, k) => k \in call.keys
       /\ call.keys \subseteq DOMAIN db
       /\ \A k \in call.keys : ~StartsWith(k, UrlPrefix)

\* C21: when source.copy(other) has returned, other holds under every key of
\* the source, the keys of the accessions and of the URLs alike, the value the
\* source holds; the keys of other that the source does not have keep their
\* values, no other key appears, and the source is unchanged.
C21_CopyFrame ==
    [][(call'.op = "copy" /\ Finished(call) /\ call'.state = "returned")
       => /\ \A k \in DOMAIN db : k \in DOMAIN other'.d /\ other'.d[k] = db[k]
          /\ \A k \in DOMAIN other.d \ DOMAIN db :
                k \in DOMAIN other'.d /\ other'.d[k] = other.d[k]
          /\ DOMAIN other'.d = DOMAIN db \cup DOMAIN other.d
          /\ db' = db]_vars

\* The source of the two records and the entry of their URL was copied into
\* the other store, which keeps c and the entry of the other URL and now
\* holds the source's a.
C21_Witness ==
    /\ call.op = "copy" /\ call.state = "returned"
    /\ db = StoreAfterU
    /\ DOMAIN other.d = {AccA, AccB, AccC, key_url(UrlU).val, key_url(UrlV).val}
    /\ other.d[AccA] = <<1, 2>>
    /\ other.d[key_url(UrlU).val] = db[key_url(UrlU).val]
    /\ other.d[AccC] = OtherStore[AccC]

\* C22: add_file on a file without a format argument and with a name from
\* which get_file_format finds no format never returns: it raises the error
\* of get_file_format, and while it runs nothing is written to the store.
C22_UnknownFormat ==
    /\ []((/\ call.op = "add_file" /\ call.arg.format = ""
           /\ ~get_file_format(call.arg.file.name).ok)
          => /\ call.state # "returned"
             /\ tasks[1].wrote = {}
             /\ tasks[1].pc \notin {"rec", "done"}
             /\ call.state = "raised" => call.ret = "ValueError")
    /\ [][(/\ call.op = "add_file" /\ call.arg.format = ""
           /\ ~get_file_format(call.arg.file.name).ok
           /\ call.state = "running")
          => db' = db]_vars

\* add_file("h.txt") with two records in the file has raised ValueError.
C22_Witness ==
    /\ call.op = "add_file" /\ call.state = "raised" /\ call.ret = "ValueError"
    /\ call.arg.file = File(NameTxt, TwoRecords) /\ call.arg.format = ""
    /\ db = <<>>

\* The ids of the records of a file.
Ids(content) == {content.records[j].id : j \in DOMAIN content.records}

\* C25: parse_filter gives None for None and for an empty collection, and
\* the set of the elements for another collection; add_file with an empty
\* collection as filter that returns has written every record of the file.
C25_EmptyFilter ==
    (call.op = "add_file" /\ tasks[1].pc \in {"rec", "done"}
        /\ call.arg.filter.t \in {"None", "set"})
    => LET given == call.arg.filter
           parsed == tasks[1].filter
       IN  /\ (given.t = "None" \/ given.elems = {}) => parsed.t = "None"
           /\ (given.t = "set" /\ given.elems # {})
                => parsed.t = "set" /\ parsed.elems = given.elems
           /\ (call.state = "returned" /\ given.t = "set" /\ given.elems = {})
                => /\ tasks[1].wrote = Ids(call.arg.file.content)
                   /\ Ids(call.arg.file.content) \subseteq DOMAIN db

\* add_file with filter=[] on the file of a and b has returned, and both are
\* in the store.
C25_Witness ==
    /\ call.op = "add_file" /\ call.state = "returned"
    /\ call.arg.filter = FilterOf({}) /\ call.arg.file = File(NameFa, TwoRecords)
    /\ tasks[1].filter = FilterNone
    /\ {AccA, AccB} \subseteq DOMAIN db

\* C27: when add_file has returned, the progress of the file's task has
\* advanced once for every record of the file, the accepted and the skipped
\* ones, and so has reached the total it was given.
C27_ProgressReachesTotal ==
    (call.op = "add_file" /\ call.state = "returned")
    => /\ tasks[1].advanced = Len(call.arg.file.content.records)
       /\ tasks[1].advanced = tasks[1].total

\* C23: in add_files(files, max=m) with m > 0 at most m of the files are
\* handed to add_file; with max=0 every file is.
C23_MaxFiles ==
    (call.op = "add_files")
    => /\ call.arg.max > 0
            => Cardinality({i \in DOMAIN tasks : tasks[i].pc # "queued"}) <= call.arg.max
       /\ (call.arg.max = 0 /\ call.state = "returned")
            => \A i \in 1..Len(call.arg.files) : tasks[i].pc = "done"

\* The URLs of the items of the call, in their order.
Dispatched(ts) == [i \in DOMAIN ts |-> ts[i].url]

\* The first m elements of a list, all of them when m is 0.
Capped(list, m) == IF m = 0 \/ m >= Len(list) THEN list ELSE SubSeq(list, 1, m)

\* C24: add_urls without force hands on no URL that is marked seen; with
\* force=True it hands on the URLs of the list, the seen ones too, up to max.
C24_ForceDispatchesSeen ==
    [][(Finished(call) /\ call'.op = "add_urls" /\ call'.state = "running")
       => /\ ~call'.arg.force
               => \A i \in DOMAIN tasks' : ~seen_url(db, tasks'[i].url)
          /\ call'.arg.force
               => Dispatched(tasks') = Capped(call'.arg.urls, call'.arg.max)]_vars

\* The characters that are white space in a filter file.
Blank == {Ord[" "], Ord["nl"]}

\* The last character of a text that is not white space, 0 without one.
LastInk(text) ==
    LET ink == {i \in DOMAIN text : text[i] \notin Blank}
    IN  IF ink = {} THEN 0 ELSE CHOOSE i \in ink : \A j \in ink : j <= i

\* A text that lists accessions one per line: it begins with an accession,
\* and up to the last one there is no space and no empty line.
Listing(text) ==
    /\ LastInk(text) > 0
    /\ text[1] \notin Blank
    /\ \A i \in 1..LastInk(text) :
          /\ text[i] # Ord[" "]
          /\ text[i] = Ord["nl"] => text[i + 1] # Ord["nl"]

\* The accessions a text lists: its longest runs without white space.
Listed(text) ==
    {SubSeq(text, i, j) : i \in DOMAIN text, j \in DOMAIN text} \cap
    {run \in UNION {[1..n -> FilterChars \ Blank] : n \in 1..(MaxSeqLen + 1)} :
        \E i \in DOMAIN text, j \in DOMAIN text :
            /\ i <= j /\ run = SubSeq(text, i, j)
            /\ (i = 1 \/ text[i - 1] \in Blank)
            /\ (j = Len(text) \/ text[j + 1] \in Blank)}

\* C26: for the Path of a file that lists accessions one per line,
\* parse_filter returns the set of exactly those accessions, whatever white
\* space ends the file.
C26_FilterFile ==
    (call.op = "parse_filter" /\ call.arg.filter.t = "Path"
        /\ Listing(call.arg.filter.text))
    => /\ call.ret = "value"
       /\ call.keys = Listed(call.arg.filter.text)

\* The file "a\nb\n" has given {a, b}.
C26_Witness ==
    /\ call.op = "parse_filter"
    /\ call.arg.filter = FilterPath(Str(<<"a", "nl", "b", "nl">>))
    /\ call.keys = {AccA, AccB}

\* The letter of a byte: A, C, G, T for 1 to 4, N for every other value.
LetterOf(b) ==
    CASE b = 1 -> Ord["A"]
      [] b = 2 -> Ord["C"]
      [] b = 3 -> Ord["G"]
      [] b = 4 -> Ord["T"]
      [] OTHER -> Ord["N"]

\* C29: bytes_to_str gives one character for every byte of its input, the
\* letter of the byte for 0 to 4 and N for a byte above 4, so that its
\* output has the length of the input and only the letters A, C, G, T, N.
C29_DecodeTotal ==
    (codec.pc = "text")
    => /\ codec.dec.ok
       /\ Len(codec.dec.val) = Len(codec.enc.val)
       /\ \A i \in DOMAIN codec.enc.val : codec.dec.val[i] = LetterOf(codec.enc.val[i])

\* C28: every value stored under an accession is a sequence of the byte
\* values 0 to 4, whatever was given to add as the sequence.
C28_StoredAlphabet ==
    \A k \in DOMAIN db : ~StartsWith(k, UrlPrefix) => Range(db[k]) \subseteq 0..4

\* The items of the call write pairwise disjoint sets of accessions.
DisjointItems ==
    \A i \in DOMAIN tasks, j \in DOMAIN tasks :
        i # j => Ids(tasks[i].content) \cap Ids(tasks[j].content) = {}

\* The records an item has to write when nothing stops it from outside: those
\* of its file, when the file can be read, up to the first record whose id
\* cannot be a key, without the ones its filter leaves out.
Due(t) ==
    LET records == t.content.records
        stops == {j \in DOMAIN records : ~IsAscii(records[j].id)}
    IN  IF t.content.bad \/ ~get_file_format(t.name).ok THEN {}
        ELSE {j \in DOMAIN records :
                /\ \A x \in stops : j < x
                /\ ~Skipped(t.filter, records[j].id)}

\* The value an item leaves under an accession: that of its last record of
\* that id.
OwnValue(t, id) ==
    LET at == {j \in Due(t) : t.content.records[j].id = id}
        last == CHOOSE j \in at : \A x \in at : x <= j
    IN  Encoded(t.content.records[last].seq)

\* C30: when add_files or add_urls with several workers has ended and its
\* items write pairwise disjoint accessions, then however the workers were
\* interleaved the store holds every record its items had to write, each
\* with its own value.
C30_InterleavingIndependent ==
    (/\ call.op \in {"add_urls", "add_files"} /\ Finished(call)
     /\ call.arg.workers > 1 /\ DisjointItems)
    => \A i \in DOMAIN tasks : \A j \in Due(tasks[i]) :
          LET id == tasks[i].content.records[j].id
          IN  /\ id \in DOMAIN db
              /\ db[id] = OwnValue(tasks[i], id)

\* The positions of an item of add_url between the making and the cleanup of
\* its temporary directory.
Holding == {"download", "open", "rec", "save", "cleanup"}

\* C31: in an add_urls batch with several workers and one tmp_dir, the
\* directory of an item in flight is there, and so is the directory it is
\* made in, whatever the cleanup of another item does; no item raises and the
\* batch does not raise.
C31_ExclusiveTmp ==
    (call.op = "add_urls" /\ call.arg.tmp /\ call.arg.workers > 1)
    => /\ call.state # "raised"
       /\ \A i \in DOMAIN tasks :
             /\ tasks[i].pc # "raised"
             /\ (call.state = "running" /\ tasks[i].pc \in Holding \cup {"mkdtemp"})
                   => fs.exists
             /\ (call.state = "running" /\ tasks[i].pc \in Holding) => i \in fs.dirs

\* C32: in one add_urls with force=False no URL is downloaded and ingested to
\* the end by two items, however the workers are interleaved and however
\* often the URL is in the list.
C32_IngestedOnce ==
    (call.op = "add_urls" /\ ~call.arg.force)
    => \A i \in DOMAIN tasks, j \in DOMAIN tasks :
          (i # j /\ tasks[i].url = tasks[j].url) => ~(tasks[i].saved /\ tasks[j].saved)

\* C33: no step of add, add_file or add_files makes, changes or removes the
\* entry that marks an URL as seen.
C33_BookkeepingUntouched ==
    [][(call'.op \in {"add", "add_file", "add_files"})
       => \A u \in {UrlU, UrlV, UrlW} :
             LET k == key_url(u).val
             IN  /\ (k \in DOMAIN db') = (k \in DOMAIN db)
                 /\ k \in DOMAIN db => db'[k] = db[k]]_vars

\* The sequence of the last record of an id in a file.
LastOf(content, id) ==
    LET at == {j \in DOMAIN content.records : content.records[j].id = id}
    IN  content.records[CHOOSE j \in at : \A x \in at : x <= j].seq

\* C34: when add_file has returned, every accession of the file that the
\* filter lets through holds the encoding of its last record in the file,
\* whatever it held before; when add(s, a) has returned, a holds the encoding
\* of s, whatever it held before.
C34_LastWriteWins ==
    /\ (call.op = "add_file" /\ call.state = "returned")
       => \A id \in Ids(call.arg.file.content) :
             ~Skipped(tasks[1].filter, id)
             => /\ id \in DOMAIN db
                /\ db[id] = Encoded(LastOf(call.arg.file.content, id))
    /\ (call.op = "add" /\ call.state = "returned")
       => /\ call.arg.accession \in DOMAIN db
          /\ db[call.arg.accession] = Encoded(call.arg.seq.v)

\* add_file has returned for the file with two records of b, and b holds the
\* second one.
C34_Witness ==
    /\ call.op = "add_file" /\ call.state = "returned"
    /\ call.arg.file = File(NameGb, SameTwice)
    /\ tasks[1].advanced = 2
    /\ db[AccB] = <<2>>

\* The records of an item that were put before the position it has reached.
PutBefore(t) ==
    {j \in DOMAIN t.content.records :
        j < t.pos /\ ~Skipped(t.filter, t.content.records[j].id)}

\* C35: when add_file or add_url has ended on a failure, every record that
\* was put before the failure is in the store with its encoded value; and no
\* step of such a call removes an entry or changes one that the call did not
\* write.
C35_NoRollback ==
    /\ []((/\ call.op \in {"add_file", "add_url"} /\ Finished(call)
            /\ tasks[1].err # "")
           => \A j \in PutBefore(tasks[1]) :
                 LET records == tasks[1].content.records
                     last == CHOOSE x \in PutBefore(tasks[1]) :
                                /\ records[x].id = records[j].id
                                /\ \A y \in PutBefore(tasks[1]) :
                                      records[y].id = records[j].id => y <= x
                 IN  /\ records[j].id \in DOMAIN db
                     /\ db[records[j].id] = Encoded(records[last].seq))
    /\ [][(call.op \in {"add_file", "add_url"} /\ call.state = "running")
           => \A k \in DOMAIN db :
                 /\ k \in DOMAIN db'
                 /\ db'[k] # db[k]
                       => k \in tasks'[1].wrote \cup {key_url(tasks[1].url).val}]_vars

\* add_file has raised on the second record of its file, and the first
\* record is in the store.
C35_Witness ==
    /\ call.op = "add_file" /\ call.state = "raised"
    /\ call.arg.file = File(NameFa, BadRecord)
    /\ tasks[1].wrote = {AccA}
    /\ AccA \in DOMAIN db /\ db[AccA] = <<3>>

C37_EmptyFilterFile ==
    (call.op = "parse_filter" /\ call.arg.filter.t = "Path"
        /\ LastInk(call.arg.filter.text) = 0)
    => call.ret = "None"

\* C38: export with an empty list of accessions, on an output whose format is
\* known, does what export without accessions does: it returns, and the file
\* holds one record for every entry of the store that holds a sequence.
C38_EmptyListExportsAll ==
    (call.op = "export" /\ call.arg.accessions = AccessionsOf(<<>>)
        /\ get_file_format(call.arg.output).ok)
    => /\ call.state = "returned"
       /\ \E list \in Listings(db, AccessionsNone) :
             call.rows = export(db, call.arg.output, list).rows
       /\ \A k \in DOMAIN db :
             HoldsSequence(db, k) => \E i \in DOMAIN call.rows : call.rows[i].id = k

\* The places of a list whose accession is not in the store.
Missing(d, list) == {i \in DOMAIN list : list[i] \notin DOMAIN d}

\* C39: export of a list with an accession that is not in the store, on an
\* output whose format is known, raises SeqBankError; the file then holds
\* the records of the accessions before the first such one, in their order;
\* and export leaves the store as it is.
C39_ExportStopsAtMissing ==
    /\ []((/\ call.op = "export" /\ call.arg.accessions.t \in {"list", "Path"}
            /\ get_file_format(call.arg.output).ok
            /\ Missing(db, Named(call.arg.accessions)) # {})
           => LET list == Named(call.arg.accessions)
                  first == CHOOSE i \in Missing(db, list) :
                               \A j \in Missing(db, list) : i <= j
              IN  /\ call.state = "raised" /\ call.ret = "SeqBankError"
                  /\ Len(call.rows) = first - 1
                  /\ \A i \in 1..(first - 1) :
                        /\ call.rows[i].id = list[i]
                        /\ HoldsSequence(db, list[i])
                              => call.rows[i].seq = TextOf(db[list[i]]))
    /\ [][call'.op = "export" /\ call' # call => db' = db]_vars

\* export of the list (a, e') on a store that holds a has raised, and the
\* record of a is in the file.
C39_Witness ==
    /\ call.op = "export" /\ call.state = "raised" /\ call.ret = "SeqBankError"
    /\ call.arg.accessions = AccessionsOf(<<AccA, AccNonAscii>>)
    /\ Len(call.rows) = 1 /\ call.rows[1].id = AccA

====
